---- MODULE Spec2Model ----
(***************************************************************************)
(* Crab8: a CHIP-8 interpreter.  The model follows                         *)
(* crab8-core/src/interpreter.rs (Chip8Interpreter::run_program and its    *)
(* Timer), crab8-core/src/state.rs (Chip8State) and the terminal           *)
(* peripherals of src/main.rs (CrossTermDisplay, CrossTermKeyboard).       *)
(*                                                                         *)
(* One pass of run_program's loop is three steps: the dispatch of one      *)
(* instruction, the timer check, and the keyboard poll.  `phase` is the    *)
(* position of the loop.                                                   *)
(***************************************************************************)
EXTENDS Integers, Sequences, FiniteSets, TLC

VARIABLES
    state,        \* Chip8State: the machine record
    display,      \* CrossTermDisplay.display: the set of lit bitmap indices
    keyboard,     \* CrossTermKeyboard: key_states and last_key_pressed
    events,       \* key events of the terminal not yet read by the keyboard
    beeper,       \* the last signal sent to the beeper
    phase,        \* position in the loop: dispatch, timer, poll; panic after an abort,
                  \* error after run_program returned an Err
    wrapped,      \* an integer overflow has wrapped: the build has no overflow checks
    last,         \* history: the instruction dispatched last, with the registers before it
    prev,         \* history: the instruction dispatched before that one
    access,       \* history: the memory addresses the last dispatch resolved
    calls,        \* history: the addresses of the calls not yet returned from
    keysLeft,     \* the number of key events the terminal still delivers
    ticksLeft,    \* the number of times the 60 Hz timer still comes due
    program,      \* run_program's argument: the bytes of the program image
    drawn,        \* history: the last two calls of display.draw, the latest last
    io,           \* history: the last two calls of the display and the keyboard that
                  \* can fail, the latest last, with their results
    timing,       \* history: what the last timer check saw
    polled,       \* history: the keyboard before the last poll and the events it read
    clock         \* the clocks of the loop, where the run is followed in time

vars == <<state, display, keyboard, events, beeper, phase, wrapped, last, prev,
          access, calls, keysLeft, ticksLeft, program, drawn, io, timing, polled, clock>>

----------------------------------------------------------------------------
(* Sizes of the machine.                                                   *)

RamSize == 4096
StackSize == 256
NumRegisters == 16
ProgramStart == 512
DisplayWidth == 64
DisplaySize == 2048

Byte == 0..255
Nibble == 0..15

----------------------------------------------------------------------------
(* u8 bit operations (the |, &, ^ of the interpreter).                     *)

RECURSIVE BitAnd(_, _)
BitAnd(a, b) ==
    IF a = 0 \/ b = 0 THEN 0
    ELSE (a % 2) * (b % 2) + 2 * BitAnd(a \div 2, b \div 2)

RECURSIVE BitOr(_, _)
BitOr(a, b) ==
    IF a = 0 THEN b
    ELSE IF b = 0 THEN a
    ELSE (IF a % 2 = 1 \/ b % 2 = 1 THEN 1 ELSE 0) + 2 * BitOr(a \div 2, b \div 2)

RECURSIVE BitXor(_, _)
BitXor(a, b) ==
    IF a = 0 THEN b
    ELSE IF b = 0 THEN a
    ELSE ((a + b) % 2) + 2 * BitXor(a \div 2, b \div 2)

----------------------------------------------------------------------------
(* Chip8State: default, load_font_data, load_program, register accessors.  *)

FONT ==
    << 240, 144, 144, 144, 240,
        32,  96,  32,  32, 112,
       240,  16, 240, 128, 240,
       240,  16, 240,  16, 240,
       144, 144, 240,  16,  16,
       240, 128, 240,  16, 240,
       240, 128, 240, 144, 240,
       240,  16,  32,  64,  64,
       240, 144, 240, 144, 240,
       240, 144, 240,  16, 240,
       240, 144, 240, 144, 144,
       224, 144, 224, 144, 224,
       240, 128, 128, 128, 240,
       224, 144, 144, 144, 224,
       240, 128, 240, 128, 240,
       240, 128, 240, 128, 128 >>

Default ==
    [ data_registers  |-> [r \in 0..(NumRegisters - 1) |-> 0],
      index_register  |-> 0,
      program_counter |-> ProgramStart,
      stack_pointer   |-> 0,
      ram             |-> [a \in 0..(RamSize - 1) |-> 0],
      stack           |-> [i \in 0..(StackSize - 1) |-> 0],
      delay_timer     |-> 0,
      sound_timer     |-> 0 ]

\* for (i, byte) in bytes.iter().enumerate() { ram[base + i] = *byte }
\* (the state after the loop's passes i, i + 1, ..: the cells are distinct, so
\* each keeps the byte its pass wrote)
WriteBytes(ram, base, bytes, i) ==
    [a \in DOMAIN ram |-> IF a - base + 1 \in i..Len(bytes) THEN bytes[a - base + 1]
                                                              ELSE ram[a]]

load_font_data(s, fonts) == [s EXCEPT !.ram = WriteBytes(@, 0, fonts, 1)]

\* variant: the image is written without the font table
load_program_NoFont(s, bytes) == [s EXCEPT !.ram = WriteBytes(@, ProgramStart, bytes, 1)]

load_program(s, bytes) ==
    LET f == load_font_data(s, FONT)
    IN  [f EXCEPT !.ram = WriteBytes(@, ProgramStart, bytes, 1)]

register(s, i) == s.data_registers[i]

register_set(s, i, v) == [s EXCEPT !.data_registers[i] = v]

set_flag(s, flag) == register_set(s, 15, IF flag THEN 1 ELSE 0)

----------------------------------------------------------------------------
(* The instruction arms of run_program's match.  Each takes the machine    *)
(* record s after the fetch (program counter already advanced by 2) and    *)
(* gives the record after the arm.                                         *)

\* variant: the pointer is decremented before the slot is read
Op00EE_PopFirst(s) ==
    LET sp == (s.stack_pointer - 1) % StackSize
    IN  [s EXCEPT !.stack_pointer = sp, !.program_counter = s.stack[sp]]

\* [0x0, 0x0, 0xE, 0xE]: counter = stack[pointer]; pointer -= 1 (wrapping form)
Op00EE(s) ==
    LET popped == [s EXCEPT !.program_counter = s.stack[s.stack_pointer]]
    IN  [popped EXCEPT !.stack_pointer = (@ - 1) % StackSize]

\* [0x1, _, _, _]
Op1nnn(s, address) == [s EXCEPT !.program_counter = address]

\* [0x2, _, _, _]: pointer += 1 (wrapping form); stack[pointer] = counter; counter = address
Op2nnn(s, address) ==
    LET sp == (s.stack_pointer + 1) % StackSize
    IN  [s EXCEPT !.stack_pointer = sp,
                  !.stack[sp] = s.program_counter,
                  !.program_counter = address]

\* variant: the skip is taken when the condition fails
Skip_Inverted(s, cond) == IF cond THEN s ELSE [s EXCEPT !.program_counter = @ + 2]

Skip(s, cond) == IF cond THEN [s EXCEPT !.program_counter = @ + 2] ELSE s

\* [0x3, vx, _, _]
Op3xnn(s, vx, nn) == Skip(s, register(s, vx) = nn)

\* [0x4, vx, _, _]
Op4xnn(s, vx, nn) == Skip(s, register(s, vx) # nn)

\* [0x5, vx, vy, 0x0]
Op5xy0(s, vx, vy) == Skip(s, register(s, vx) = register(s, vy))

\* [0x6, vx, _, _]
Op6xnn(s, vx, nn) == register_set(s, vx, nn)

\* variant: the addition reports its carry in VF
Op7xnn_Carry(s, vx, nn) ==
    set_flag(register_set(s, vx, (register(s, vx) + nn) % 256), register(s, vx) + nn > 255)

\* [0x7, vx, _, _]: wrapping_add
Op7xnn(s, vx, nn) == register_set(s, vx, (register(s, vx) + nn) % 256)

\* [0x8, vx, vy, 0x0]
Op8xy0(s, vx, vy) == register_set(s, vx, register(s, vy))

\* [0x8, vx, vy, 0x1]
Op8xy1(s, vx, vy) == register_set(s, vx, BitOr(register(s, vx), register(s, vy)))

\* [0x8, vx, vy, 0x2]
Op8xy2(s, vx, vy) == register_set(s, vx, BitAnd(register(s, vx), register(s, vy)))

\* [0x8, vx, vy, 0x3]
Op8xy3(s, vx, vy) == register_set(s, vx, BitXor(register(s, vx), register(s, vy)))

\* u8::overflowing_add: (wrapped sum, whether it overflowed)
overflowing_add(a, b, width) == <<(a + b) % width, a + b >= width>>

\* u8::overflowing_sub: (wrapped difference, whether it borrowed)
overflowing_sub(a, b) == <<(a - b) % 256, a < b>>

\* u8::overflowing_shr: (a >> (n mod 8), whether n >= 8)
overflowing_shr(a, n) == <<a \div (2 ^ (n % 8)), n >= 8>>

\* u8::overflowing_shl: (a << (n mod 8) in 8 bits, whether n >= 8)
overflowing_shl(a, n) == <<(a * (2 ^ (n % 8))) % 256, n >= 8>>

\* variant: the flag is written before the sum
Op8xy4_FlagFirst(s, vx, vy) ==
    LET r == overflowing_add(register(s, vx), register(s, vy), 256)
    IN  register_set(set_flag(s, r[2]), vx, r[1])

\* [0x8, vx, vy, 0x4]
Op8xy4(s, vx, vy) ==
    LET r == overflowing_add(register(s, vx), register(s, vy), 256)
    IN  set_flag(register_set(s, vx, r[1]), r[2])

\* variant: equal operands count as a borrow
Op8xy5_StrictBorrow(s, vx, vy) ==
    LET r == overflowing_sub(register(s, vx), register(s, vy))
    IN  set_flag(register_set(s, vx, r[1]), register(s, vx) > register(s, vy))

\* [0x8, vx, vy, 0x5]
Op8xy5(s, vx, vy) ==
    LET r == overflowing_sub(register(s, vx), register(s, vy))
    IN  set_flag(register_set(s, vx, r[1]), ~r[2])

\* [0x8, vx, _, 0x6]
Op8xy6(s, vx) ==
    LET r == overflowing_shr(register(s, vx), 1)
    IN  set_flag(register_set(s, vx, r[1]), ~r[2])

\* variant: the flag is written before the difference
Op8xy7_FlagFirst(s, vx, vy) ==
    LET r == overflowing_sub(register(s, vy), register(s, vx))
    IN  register_set(set_flag(s, ~r[2]), vx, r[1])

\* [0x8, vx, vy, 0x7]
Op8xy7(s, vx, vy) ==
    LET r == overflowing_sub(register(s, vy), register(s, vx))
    IN  set_flag(register_set(s, vx, r[1]), ~r[2])

\* variant: the other reading of the instruction set, Vx = Vy << 1
Op8xyE_FromVy(s, vx) ==
    LET r == overflowing_shl(register(s, s.ram[s.program_counter - 1] \div 16), 1)
    IN  set_flag(register_set(s, vx, r[1]), ~r[2])

\* [0x8, vx, _, 0xE]
Op8xyE(s, vx) ==
    LET r == overflowing_shl(register(s, vx), 1)
    IN  set_flag(register_set(s, vx, r[1]), ~r[2])

\* [0x9, vx, vy, 0x0]
Op9xy0(s, vx, vy) == Skip(s, register(s, vx) # register(s, vy))

\* [0xA, _, _, _]
OpAnnn(s, address) == [s EXCEPT !.index_register = address]

\* [0xB, _, _, _]
OpBnnn(s, address) == [s EXCEPT !.program_counter = register(s, 0) + address]

\* [0xC, vx, _, _]: rnd is the byte the generator gave
OpCxnn(s, vx, nn, rnd) == register_set(s, vx, BitAnd(nn, rnd))

\* [0xE, vx, 0x9, 0xE] and [0xE, vx, 0xA, 0x1]: down is is_key_down(Vx)
OpEx9E(s, down) == Skip(s, down)

OpExA1(s, down) == Skip(s, ~down)

\* [0xF, vx, 0x0, 0x7]
OpFx07(s, vx) == register_set(s, vx, s.delay_timer)

\* variant: the counter is not rewound when no key was pressed
OpFx0A_NoRewind(s, vx, key) ==
    IF key # <<>> THEN register_set(s, vx, key[1]) ELSE s

\* [0xF, vx, 0x0, 0xA]: key is last_key_pressed(), <<>> for None and <<k>> for Some(k)
OpFx0A(s, vx, key) ==
    IF key # <<>> THEN register_set(s, vx, key[1])
    ELSE [s EXCEPT !.program_counter = @ - 2]

\* [0xF, vx, 0x1, 0x5]
OpFx15(s, vx) == [s EXCEPT !.delay_timer = register(s, vx)]

\* [0xF, vx, 0x1, 0x8]
OpFx18(s, vx) == [s EXCEPT !.sound_timer = register(s, vx)]

\* [0xF, vx, 0x1, 0xE]: u16::overflowing_add on the index register
OpFx1E(s, vx) ==
    LET r == overflowing_add(s.index_register, register(s, vx), 65536)
    IN  set_flag([s EXCEPT !.index_register = r[1]], r[2])

\* variant: glyphs of four bytes
OpFx29_FourRows(s, vx) == [s EXCEPT !.index_register = register(s, vx) * 4]

\* [0xF, vx, 0x2, 0x9]
OpFx29(s, vx) == [s EXCEPT !.index_register = register(s, vx) * 5]

\* variant: the tens are not reduced modulo 10
OpFx33_TensUnreduced(s, vx) ==
    LET value == register(s, vx)
        i == s.index_register
    IN  [s EXCEPT !.ram[i] = value \div 100,
                  !.ram[i + 1] = value \div 10,
                  !.ram[i + 2] = value % 10]

\* [0xF, vx, 0x3, 0x3]
OpFx33(s, vx) ==
    LET value == register(s, vx)
        i == s.index_register
    IN  [s EXCEPT !.ram[i] = value \div 100,
                  !.ram[i + 1] = (value \div 10) % 10,
                  !.ram[i + 2] = value % 10]

\* [0xF, vx, 0x5, 0x5]: for i in 0..=vx { ram[index + i] = register(i) }
RECURSIVE StoreLoop(_, _, _)
StoreLoop(s, vx, i) ==
    IF i > vx THEN s
    ELSE StoreLoop([s EXCEPT !.ram[s.index_register + i] = register(s, i)], vx, i + 1)

\* variant: the range 0..vx without its end
OpFx55_Exclusive(s, vx) == StoreLoop(s, vx - 1, 0)

OpFx55(s, vx) == StoreLoop(s, vx, 0)

\* [0xF, vx, 0x6, 0x5]: for i in 0..=vx { register(i) = ram[index + i] }
RECURSIVE LoadLoop(_, _, _)
LoadLoop(s, vx, i) ==
    IF i > vx THEN s
    ELSE LoadLoop(register_set(s, i, s.ram[s.index_register + i]), vx, i + 1)

OpFx65(s, vx) == LoadLoop(s, vx, 0)

----------------------------------------------------------------------------
(* CrossTermDisplay::draw.  The bitmap is the set of its lit indices.  acc *)
(* is <<bitmap, pixel_cleared, overflow>>; overflow says that the u8 sum   *)
(* x + j passed 255 (col is then the wrapped sum).                         *)

\* for j in 0..8 { ... if display_index >= len { break } ... }: one row of
\* the sprite.  The passes j the loop enters are those with no break before
\* them; a pass breaks when its display_index is outside the bitmap.  The
\* passes of a row address distinct indices, so the row flips the set of
\* the indices of its set bits.
DrawRow(acc, x, row, to_draw) ==
    LET col(j) == (x + j) % 256
        flip(j) == (to_draw \div (2 ^ (7 - j))) % 2 = 1
        display_index(j) == row * DisplayWidth + col(j)
        entered == { j \in 0..7 : \A k \in 0..(j - 1) : display_index(k) < DisplaySize }
        flipped == { display_index(j) :
                       j \in { k \in entered : display_index(k) < DisplaySize /\ flip(k) } }
    IN  << (acc[1] \ flipped) \cup (flipped \ acc[1]),
           acc[2] \/ (flipped \cap acc[1] # {}),
           acc[3] \/ (\E j \in entered : x + j > 255) >>

\* for (i, to_draw) in data.iter().enumerate() { let row = y + i; ... }
RECURSIVE DrawRows(_, _, _, _, _)
DrawRows(acc, x, y, data, i) ==
    IF i > Len(data) THEN acc
    ELSE DrawRows(DrawRow(acc, x, y + (i - 1), data[i]), x, y, data, i + 1)

\* a draw that sets the sprite's pixels instead of flipping them
draw_Overwrite(bitmap, x, y, data) ==
    LET d == DrawRows(<<bitmap, FALSE, FALSE>>, x, y, data, 1)
    IN  <<d[1] \cup bitmap, d[2], d[3]>>

\* a draw that reports every change of a pixel as a collision
draw_AnyChange(bitmap, x, y, data) ==
    LET d == DrawRows(<<bitmap, FALSE, FALSE>>, x, y, data, 1)
    IN  <<d[1], d[1] # bitmap, d[3]>>

draw(bitmap, x, y, data) == DrawRows(<<bitmap, FALSE, FALSE>>, x, y, data, 1)

\* &ram[index .. index + n]
SpriteData(s, n) == [i \in 1..n |-> s.ram[s.index_register + i - 1]]

\* variant: the flag is written before the result of draw is looked at
OpDxyn_FlagAlways(s, flag, ok) == set_flag(s, flag)

\* let flag = self.display.draw(vx, vy, data)?; state.set_flag(flag);
\* ok says that draw returned Ok(flag)
OpDxyn(s, flag, ok) == IF ok THEN set_flag(s, flag) ELSE s

\* the history of the draws, with the call d added
Drawn(history, d) ==
    LET h == Append(history, d)
    IN  IF Len(h) > 2 THEN Tail(h) ELSE h

----------------------------------------------------------------------------
(* CrossTermKeyboard.  key_states is the set of the keys whose bit is set; *)
(* last_key_pressed is <<>> for None and <<k>> for Some(k).                *)

KeyCodes == {"x", "w", "p"}
KeyKinds == {"Press", "Release", "Repeat"}

KeyboardNew == [key_states |-> {}, last_key_pressed |-> <<>>]

\* crossterm_keymap: <<k>> for Some(k), <<>> for None
crossterm_keymap(code) ==
    CASE code = "1" -> <<1>>  [] code = "2" -> <<2>>  [] code = "3" -> <<3>>
      [] code = "4" -> <<12>> [] code = "q" -> <<4>>  [] code = "w" -> <<5>>
      [] code = "e" -> <<6>>  [] code = "r" -> <<13>> [] code = "a" -> <<7>>
      [] code = "s" -> <<8>>  [] code = "d" -> <<9>>  [] code = "f" -> <<14>>
      [] code = "z" -> <<10>> [] code = "x" -> <<0>>  [] code = "c" -> <<11>>
      [] code = "v" -> <<15>> [] OTHER -> <<>>

\* variant: every press is recorded, of a held key too
HandleEvent_AnyPress(kb, ev) ==
    LET key == crossterm_keymap(ev.code)
    IN  IF key = <<>> THEN kb
        ELSE CASE ev.kind = "Press" ->
                    [ key_states |-> kb.key_states \cup {key[1]},
                      last_key_pressed |-> key ]
               [] ev.kind = "Release" ->
                    [kb EXCEPT !.key_states = @ \ {key[1]}]
               [] OTHER -> kb

\* the body of update_keystates' loop for one event read
HandleEvent(kb, ev) ==
    LET key == crossterm_keymap(ev.code)
    IN  IF key = <<>> THEN kb
        ELSE CASE ev.kind = "Press" ->
                    [ key_states |-> kb.key_states \cup {key[1]},
                      last_key_pressed |->
                          IF key[1] \notin kb.key_states THEN key
                          ELSE kb.last_key_pressed ]
               [] ev.kind = "Release" ->
                    [kb EXCEPT !.key_states = @ \ {key[1]}]
               [] OTHER -> kb

RECURSIVE HandleEvents(_, _, _)
HandleEvents(kb, evs, i) ==
    IF i > Len(evs) THEN kb
    ELSE HandleEvents(HandleEvent(kb, evs[i]), evs, i + 1)

\* variant: the key recorded by an earlier call is kept
update_keystates_NoReset(kb, evs) ==
    HandleEvents(kb, evs, 1)

\* update_keystates reading the events evs before its time is used up
update_keystates(kb, evs) ==
    HandleEvents([kb EXCEPT !.last_key_pressed = <<>>], evs, 1)

\* key_states & (1 << key) > 0, the shift amount taken in the 16 bits of key_states
is_key_down(kb, key) == (key % 16) \in kb.key_states

----------------------------------------------------------------------------
(* run_program: fetch and decode.                                          *)

byte_a == state.ram[state.program_counter]
byte_b == state.ram[state.program_counter + 1]
nibble_0 == byte_a \div 16
nibble_1 == byte_a % 16
nibble_2 == byte_b \div 16
nibble_3 == byte_b % 16
address == nibble_1 * 256 + byte_b
immediate_value == byte_b

Instr == <<nibble_0, nibble_1, nibble_2, nibble_3>>

\* both bytes of the instruction are inside the memory
Fetching == phase = "dispatch" /\ state.program_counter + 1 < RamSize

\* state.program_counter += 2
Fetched == [state EXCEPT !.program_counter = @ + 2]

FetchAddrs == {state.program_counter, state.program_counter + 1}

\* the addresses base .. base+count-1 an arm indexes in turn, up to the first
\* one outside the memory (where the indexing panics)
Touched(base, count) ==
    {a \in base..(base + count - 1) : a < RamSize \/ a = base \/ a - 1 < RamSize}

Record(outcome) ==
    [ word    |-> Instr,
      at      |-> state.program_counter,
      before  |-> state.data_registers,
      index   |-> state.index_register,
      sp      |-> state.stack_pointer,
      key     |-> keyboard.last_key_pressed,
      frame   |-> IF calls = <<>> THEN <<>> ELSE <<calls[Len(calls)]>>,
      outcome |-> outcome ]

\* no instruction dispatched yet
NoInstruction ==
    [ word |-> <<>>, at |-> 0, before |-> Default.data_registers, index |-> 0,
      sp |-> 0, key |-> <<>>, frame |-> <<>>, outcome |-> "none" ]

\* variant: after the arm the loop goes straight to the next fetch
Retire_NoPoll(s2, addrs) ==
    /\ state' = s2
    /\ phase' = "dispatch"
    /\ last' = Record("ok")
    /\ prev' = last
    /\ access' = FetchAddrs \cup addrs

\* the arm ran to its end: the loop goes on to the timer check
Retire(s2, addrs) ==
    /\ state' = s2
    /\ phase' = "timer"
    /\ last' = Record("ok")
    /\ prev' = last
    /\ access' = FetchAddrs \cup addrs

\* the arm panicked: the process is gone
Panic(addrs) ==
    /\ state' = Fetched
    /\ phase' = "panic"
    /\ last' = Record("panic")
    /\ prev' = last
    /\ access' = FetchAddrs \cup addrs

\* a Display call of the arm returned an Err, which `?` returns from run_program
IoError(s2, addrs) ==
    /\ state' = s2
    /\ phase' = "error"
    /\ last' = Record("error")
    /\ prev' = last
    /\ access' = FetchAddrs \cup addrs

\* an integer overflow in the arm: a panic in a build with overflow checks,
\* the wrapped result s2 in a build without them
Overflow(s2, addrs) ==
    \/ ~wrapped /\ Panic(addrs) /\ UNCHANGED wrapped
    \/ Retire(s2, addrs) /\ wrapped' = TRUE

Known(w) ==
    \/ w = <<0, 0, 14, 0>> \/ w = <<0, 0, 14, 14>>
    \/ w[1] \in {1, 2, 3, 4, 6, 7, 10, 11, 12, 13}
    \/ w[1] \in {5, 9} /\ w[4] = 0
    \/ w[1] = 8 /\ w[4] \in {0, 1, 2, 3, 4, 5, 6, 7, 14}
    \/ w[1] = 14 /\ <<w[3], w[4]>> \in {<<9, 14>>, <<10, 1>>}
    \/ w[1] = 15 /\ <<w[3], w[4]>> \in
          {<<0, 7>>, <<0, 10>>, <<1, 5>>, <<1, 8>>, <<1, 14>>, <<2, 9>>, <<3, 3>>,
           <<5, 5>>, <<6, 5>>}

----------------------------------------------------------------------------
(* run_program: the dispatch of one instruction, one action per arm.       *)

env == <<keyboard, events, beeper, keysLeft, ticksLeft, program, timing, polled, clock>>

screen == <<display, drawn, io>>

\* the call op of a peripheral returned Ok (ok) or an Err
Called(trace, op, ok) ==
    LET t == Append(trace, [op |-> op, ok |-> ok])
    IN  IF Len(t) > 2 THEN Tail(t) ELSE t

\* ram[program_counter] or ram[program_counter + 1] is outside the memory
FetchFault ==
    /\ phase = "dispatch"
    /\ state.program_counter + 1 >= RamSize
    /\ phase' = "panic"
    /\ access' = Touched(state.program_counter, 2)
    /\ UNCHANGED <<state, screen, env, wrapped, last, prev, calls>>

ClearDisplay ==
    /\ Fetching /\ Instr = <<0, 0, 14, 0>>
    /\ display' = {}
    /\ \/ Retire(Fetched, {}) /\ io' = Called(io, "clear", TRUE)
       \/ IoError(Fetched, {}) /\ io' = Called(io, "clear", FALSE)
    /\ UNCHANGED <<drawn, env, wrapped, calls>>

Return ==
    /\ Fetching /\ Instr = <<0, 0, 14, 14>>
    /\ IF state.stack_pointer = 0
       THEN Overflow(Op00EE(Fetched), {})
       ELSE Retire(Op00EE(Fetched), {}) /\ UNCHANGED wrapped
    /\ calls' = IF calls = <<>> THEN calls ELSE SubSeq(calls, 1, Len(calls) - 1)
    /\ UNCHANGED <<screen, env>>

Jump ==
    /\ Fetching /\ nibble_0 = 1
    /\ Retire(Op1nnn(Fetched, address), {})
    /\ UNCHANGED <<screen, env, wrapped, calls>>

Call ==
    /\ Fetching /\ nibble_0 = 2
    /\ IF state.stack_pointer = StackSize - 1
       THEN Overflow(Op2nnn(Fetched, address), {})
       ELSE Retire(Op2nnn(Fetched, address), {}) /\ UNCHANGED wrapped
    /\ calls' = LET pushed == Append(calls, [at |-> state.program_counter,
                                             sp |-> state.stack_pointer])
                IN  IF Len(pushed) < StackSize THEN pushed ELSE Tail(pushed)
    /\ UNCHANGED <<screen, env>>

SkipEqImm ==
    /\ Fetching /\ nibble_0 = 3
    /\ Retire(Op3xnn(Fetched, nibble_1, immediate_value), {})
    /\ UNCHANGED <<screen, env, wrapped, calls>>

SkipNeImm ==
    /\ Fetching /\ nibble_0 = 4
    /\ Retire(Op4xnn(Fetched, nibble_1, immediate_value), {})
    /\ UNCHANGED <<screen, env, wrapped, calls>>

SkipEqReg ==
    /\ Fetching /\ nibble_0 = 5 /\ nibble_3 = 0
    /\ Retire(Op5xy0(Fetched, nibble_1, nibble_2), {})
    /\ UNCHANGED <<screen, env, wrapped, calls>>

LoadImm ==
    /\ Fetching /\ nibble_0 = 6
    /\ Retire(Op6xnn(Fetched, nibble_1, immediate_value), {})
    /\ UNCHANGED <<screen, env, wrapped, calls>>

AddImm ==
    /\ Fetching /\ nibble_0 = 7
    /\ Retire(Op7xnn(Fetched, nibble_1, immediate_value), {})
    /\ UNCHANGED <<screen, env, wrapped, calls>>

Move ==
    /\ Fetching /\ nibble_0 = 8 /\ nibble_3 = 0
    /\ Retire(Op8xy0(Fetched, nibble_1, nibble_2), {})
    /\ UNCHANGED <<screen, env, wrapped, calls>>

Or ==
    /\ Fetching /\ nibble_0 = 8 /\ nibble_3 = 1
    /\ Retire(Op8xy1(Fetched, nibble_1, nibble_2), {})
    /\ UNCHANGED <<screen, env, wrapped, calls>>

And ==
    /\ Fetching /\ nibble_0 = 8 /\ nibble_3 = 2
    /\ Retire(Op8xy2(Fetched, nibble_1, nibble_2), {})
    /\ UNCHANGED <<screen, env, wrapped, calls>>

Xor ==
    /\ Fetching /\ nibble_0 = 8 /\ nibble_3 = 3
    /\ Retire(Op8xy3(Fetched, nibble_1, nibble_2), {})
    /\ UNCHANGED <<screen, env, wrapped, calls>>

Add ==
    /\ Fetching /\ nibble_0 = 8 /\ nibble_3 = 4
    /\ Retire(Op8xy4(Fetched, nibble_1, nibble_2), {})
    /\ UNCHANGED <<screen, env, wrapped, calls>>

Sub ==
    /\ Fetching /\ nibble_0 = 8 /\ nibble_3 = 5
    /\ Retire(Op8xy5(Fetched, nibble_1, nibble_2), {})
    /\ UNCHANGED <<screen, env, wrapped, calls>>

ShiftRight ==
    /\ Fetching /\ nibble_0 = 8 /\ nibble_3 = 6
    /\ Retire(Op8xy6(Fetched, nibble_1), {})
    /\ UNCHANGED <<screen, env, wrapped, calls>>

SubReverse ==
    /\ Fetching /\ nibble_0 = 8 /\ nibble_3 = 7
    /\ Retire(Op8xy7(Fetched, nibble_1, nibble_2), {})
    /\ UNCHANGED <<screen, env, wrapped, calls>>

ShiftLeft ==
    /\ Fetching /\ nibble_0 = 8 /\ nibble_3 = 14
    /\ Retire(Op8xyE(Fetched, nibble_1), {})
    /\ UNCHANGED <<screen, env, wrapped, calls>>

SkipNeReg ==
    /\ Fetching /\ nibble_0 = 9 /\ nibble_3 = 0
    /\ Retire(Op9xy0(Fetched, nibble_1, nibble_2), {})
    /\ UNCHANGED <<screen, env, wrapped, calls>>

SetIndex ==
    /\ Fetching /\ nibble_0 = 10
    /\ Retire(OpAnnn(Fetched, address), {})
    /\ UNCHANGED <<screen, env, wrapped, calls>>

JumpOffset ==
    /\ Fetching /\ nibble_0 = 11
    /\ Retire(OpBnnn(Fetched, address), {})
    /\ UNCHANGED <<screen, env, wrapped, calls>>

Random ==
    /\ Fetching /\ nibble_0 = 12
    /\ \E rnd \in Byte : Retire(OpCxnn(Fetched, nibble_1, immediate_value, rnd), {})
    /\ UNCHANGED <<screen, env, wrapped, calls>>

\* the slice &ram[index .. index + n] panics when it ends outside the memory;
\* draw's u8 sum x + j may overflow; draw changes the bitmap and then writes to
\* the terminal, which may fail, and then the flag is not set
DrawSprite ==
    /\ Fetching /\ nibble_0 = 13
    /\ LET sprite == Touched(state.index_register, nibble_3)
       IN  IF state.index_register + nibble_3 > RamSize
           THEN Panic(sprite) /\ UNCHANGED <<screen, wrapped>>
           ELSE LET x == register(state, nibble_1)
                    y == register(state, nibble_2)
                    data == SpriteData(state, nibble_3)
                    d == draw(display, x, y, data)
                IN  \/ /\ d[3] /\ ~wrapped
                       /\ Panic(sprite)
                       /\ UNCHANGED <<screen, wrapped>>
                    \/ /\ display' = d[1]
                       /\ wrapped' = (wrapped \/ d[3])
                       /\ drawn' = Drawn(drawn, [before |-> display, after |-> d[1],
                                                 x |-> x, y |-> y, data |-> data,
                                                 flag |-> d[2]])
                       /\ \E ok \in BOOLEAN :
                             /\ io' = Called(io, "draw", ok)
                             /\ IF ok THEN Retire(OpDxyn(Fetched, d[2], ok), sprite)
                                      ELSE IoError(OpDxyn(Fetched, d[2], ok), sprite)
    /\ UNCHANGED <<env, calls>>

\* is_key_down's shift 1 << key overflows for a key above 15
SkipKeyDown ==
    /\ Fetching /\ nibble_0 = 14 /\ nibble_2 = 9 /\ nibble_3 = 14
    /\ LET s2 == OpEx9E(Fetched, is_key_down(keyboard, register(state, nibble_1)))
       IN  IF register(state, nibble_1) > 15
           THEN Overflow(s2, {})
           ELSE Retire(s2, {}) /\ UNCHANGED wrapped
    /\ UNCHANGED <<screen, env, calls>>

SkipKeyUp ==
    /\ Fetching /\ nibble_0 = 14 /\ nibble_2 = 10 /\ nibble_3 = 1
    /\ LET s2 == OpExA1(Fetched, is_key_down(keyboard, register(state, nibble_1)))
       IN  IF register(state, nibble_1) > 15
           THEN Overflow(s2, {})
           ELSE Retire(s2, {}) /\ UNCHANGED wrapped
    /\ UNCHANGED <<screen, env, calls>>

GetDelay ==
    /\ Fetching /\ nibble_0 = 15 /\ nibble_2 = 0 /\ nibble_3 = 7
    /\ Retire(OpFx07(Fetched, nibble_1), {})
    /\ UNCHANGED <<screen, env, wrapped, calls>>

WaitKey ==
    /\ Fetching /\ nibble_0 = 15 /\ nibble_2 = 0 /\ nibble_3 = 10
    /\ Retire(OpFx0A(Fetched, nibble_1, keyboard.last_key_pressed), {})
    /\ UNCHANGED <<screen, env, wrapped, calls>>

SetDelay ==
    /\ Fetching /\ nibble_0 = 15 /\ nibble_2 = 1 /\ nibble_3 = 5
    /\ Retire(OpFx15(Fetched, nibble_1), {})
    /\ UNCHANGED <<screen, env, wrapped, calls>>

SetSound ==
    /\ Fetching /\ nibble_0 = 15 /\ nibble_2 = 1 /\ nibble_3 = 8
    /\ Retire(OpFx18(Fetched, nibble_1), {})
    /\ UNCHANGED <<screen, env, wrapped, calls>>

AddIndex ==
    /\ Fetching /\ nibble_0 = 15 /\ nibble_2 = 1 /\ nibble_3 = 14
    /\ Retire(OpFx1E(Fetched, nibble_1), {})
    /\ UNCHANGED <<screen, env, wrapped, calls>>

GlyphIndex ==
    /\ Fetching /\ nibble_0 = 15 /\ nibble_2 = 2 /\ nibble_3 = 9
    /\ Retire(OpFx29(Fetched, nibble_1), {})
    /\ UNCHANGED <<screen, env, wrapped, calls>>

StoreDecimal ==
    /\ Fetching /\ nibble_0 = 15 /\ nibble_2 = 3 /\ nibble_3 = 3
    /\ LET cells == Touched(state.index_register, 3)
       IN  IF state.index_register + 2 >= RamSize
           THEN Panic(cells)
           ELSE Retire(OpFx33(Fetched, nibble_1), cells)
    /\ UNCHANGED <<screen, env, wrapped, calls>>

StoreRegisters ==
    /\ Fetching /\ nibble_0 = 15 /\ nibble_2 = 5 /\ nibble_3 = 5
    /\ LET cells == Touched(state.index_register, nibble_1 + 1)
       IN  IF state.index_register + nibble_1 >= RamSize
           THEN Panic(cells)
           ELSE Retire(OpFx55(Fetched, nibble_1), cells)
    /\ UNCHANGED <<screen, env, wrapped, calls>>

LoadRegisters ==
    /\ Fetching /\ nibble_0 = 15 /\ nibble_2 = 6 /\ nibble_3 = 5
    /\ LET cells == Touched(state.index_register, nibble_1 + 1)
       IN  IF state.index_register + nibble_1 >= RamSize
           THEN Panic(cells)
           ELSE Retire(OpFx65(Fetched, nibble_1), cells)
    /\ UNCHANGED <<screen, env, wrapped, calls>>

\* variant: an unknown instruction word is passed over
UnknownInstruction_Skipped ==
    /\ Fetching /\ ~Known(Instr)
    /\ Retire(Fetched, {})
    /\ UNCHANGED <<screen, env, wrapped, calls>>

\* the default arm: display.clear()?; display.flush()?; panic!
UnknownInstruction ==
    /\ Fetching /\ ~Known(Instr)
    /\ display' = {}
    /\ \/ /\ Panic({})
          /\ io' = Called(Called(io, "clear", TRUE), "flush", TRUE)
       \/ /\ IoError(Fetched, {})
          /\ io' = Called(io, "clear", FALSE)
       \/ /\ IoError(Fetched, {})
          /\ io' = Called(Called(io, "clear", TRUE), "flush", FALSE)
    /\ UNCHANGED <<drawn, env, wrapped, calls>>

----------------------------------------------------------------------------
(* run_program: the timer check and the keyboard poll that end the pass.   *)

\* Timer::tick(): the answers it can give while the timer still comes due
TimerTick(left) == IF left > 0 THEN BOOLEAN ELSE {FALSE}

\* variant: the timers are decremented without the test for zero
TimerHandler_Wrap(s, tick) ==
    IF ~tick THEN s
    ELSE [s EXCEPT !.delay_timer = (@ - 1) % 256, !.sound_timer = (@ - 1) % 256]

\* if timer.tick() { ... }; tick is what Timer::tick() answered
TimerHandler(s, tick) ==
    IF ~tick THEN s
    ELSE [s EXCEPT !.delay_timer = IF @ > 0 THEN @ - 1 ELSE @,
                   !.sound_timer = IF @ > 0 THEN @ - 1 ELSE @]

\* variant: the beeper follows the sound timer as decremented
BeeperSignal_AfterDecrement(s, tick, was) ==
    IF ~tick THEN was
    ELSE IF TimerHandler(s, tick).sound_timer > 0 THEN "play" ELSE "pause"

\* variant: the beep stops one tick early
BeeperSignal_StopsEarly(s, tick, was) ==
    IF ~tick THEN was
    ELSE IF s.sound_timer > 1 THEN "play" ELSE "pause"

\* beeper.play() in the branch that decrements the sound timer, beeper.pause() in the other
BeeperSignal(s, tick, was) ==
    IF ~tick THEN was
    ELSE IF s.sound_timer > 0 THEN "play" ELSE "pause"

\* after a tick display.flush()? may return an Err
TimerCheck ==
    /\ phase = "timer"
    /\ \E tick \in TimerTick(ticksLeft) :
          /\ state' = TimerHandler(state, tick)
          /\ ticksLeft' = IF tick THEN ticksLeft - 1 ELSE ticksLeft
          /\ beeper' = BeeperSignal(state, tick, beeper)
          /\ timing' = [tick |-> tick, delay |-> state.delay_timer,
                        sound |-> state.sound_timer]
          /\ IF tick
             THEN \E ok \in BOOLEAN :
                     /\ io' = Called(io, "flush", ok)
                     /\ phase' = IF ok THEN "poll" ELSE "error"
             ELSE phase' = "poll" /\ io' = io
    /\ UNCHANGED <<display, drawn, keyboard, events, keysLeft, program, wrapped, last, prev,
                   access, calls, polled, clock>>

\* the terminal queues a key event while the interpreter is in its poll
KeyEvent ==
    /\ phase = "poll"
    /\ keysLeft > 0
    /\ \E code \in KeyCodes, kind \in KeyKinds :
          events' = Append(events, [code |-> code, kind |-> kind])
    /\ keysLeft' = keysLeft - 1
    /\ UNCHANGED <<state, screen, keyboard, beeper, phase, wrapped, last, prev, access, calls,
                   ticksLeft, program, timing, polled, clock>>

\* keyboard.update_keystates(time_left)?: it reads the first n queued events
\* before time_left is used up (none when time_left is 0), or before event::poll
\* or event::read returns an Err
Poll ==
    /\ phase = "poll"
    /\ \E n \in 0..Len(events) :
          /\ keyboard' = update_keystates(keyboard, SubSeq(events, 1, n))
          /\ events' = SubSeq(events, n + 1, Len(events))
          /\ polled' = [before |-> keyboard, events |-> SubSeq(events, 1, n)]
    /\ \E ok \in BOOLEAN :
          /\ io' = Called(io, "poll", ok)
          /\ phase' = IF ok THEN "dispatch" ELSE "error"
    /\ UNCHANGED <<state, display, drawn, beeper, keysLeft, wrapped, last, prev, access, calls,
                   ticksLeft, program, timing, clock>>

----------------------------------------------------------------------------
(* The loop followed in time.  Instants and Durations are counted in clock *)
(* units, Micro of them to the microsecond; update_keystates is followed   *)
(* one turn of its loop at a time.                                         *)

Micro == 2
MaxTime == 17
MaxCycles == 4

\* Duration::from_secs_f32(1. / 60.): longer than any fast frame, not a whole
\* number of microseconds
Interval == 2 * Micro + 1

\* cpu_frame_time_micros = (1_000_000. / max_clock_speed as f64) as u64: 0 for a
\* clock above 1 MHz, a frame shorter than the timer interval, one of more than three
\* intervals
FrameTimes == {0, 1, 8}

\* Duration::as_micros(): whole microseconds, the rest dropped
as_micros(d) == d \div Micro

\* Duration::from_micros
from_micros(us) == us * Micro

\* Instant - Instant, which saturates at zero
duration_since(a, b) == IF a > b THEN a - b ELSE 0

\* variant: a tick that comes late restarts the interval at the current time
Timer_tick_Coalesce(c) ==
    IF duration_since(c.now, c.last_tick) >= Interval
    THEN [fired |-> TRUE, last_tick |-> c.now]
    ELSE [fired |-> FALSE, last_tick |-> c.last_tick]

\* Timer::tick: what it returns and the last_tick it leaves
Timer_tick(c) ==
    IF duration_since(c.now, c.last_tick) >= Interval
    THEN [fired |-> TRUE, last_tick |-> c.last_tick + Interval]
    ELSE [fired |-> FALSE, last_tick |-> c.last_tick]

\* the clocks before Timer::new read the time at `created`
ClockNew(frame, created) ==
    [ now            |-> created,
      start          |-> 0,
      frame          |-> frame,
      next_cpu_frame |-> from_micros(frame),
      created        |-> created,
      last_tick      |-> created,
      fired          |-> 0,
      cycles         |-> 0,
      time_left      |-> 0,
      handed         |-> 0,
      start_time     |-> 0,
      pending        |-> 0,
      stalled        |-> FALSE ]

\* the clocks where the run is not followed in time
NoClock == ClockNew(0, 0)

----------------------------------------------------------------------------
(* The sessions checked: a program image and the number of key events the  *)
(* terminal delivers while it runs.                                        *)

MaxDepth == 17
MaxKeyEvents == 2
MaxTicks == 4

Ins(a, b, c, d) == <<a * 16 + b, c * 16 + d>>
InsNN(a, x, nn) == <<a * 16 + x, nn>>
InsAddr(a, nnn) == <<a * 16 + (nnn \div 256), nnn % 256>>

RECURSIVE Concat(_)
Concat(parts) == IF parts = <<>> THEN <<>> ELSE Head(parts) \o Concat(Tail(parts))

Selectors == {0, 1, 15}
Values == {0, 1, 127, 128, 255}
AluOps == {0, 1, 2, 3, 4, 5, 6, 7, 14}

\* Vx = a; Vy = b; 8xy<op>
AluPrograms ==
    { InsNN(6, x, a) \o InsNN(6, y, b) \o Ins(8, x, y, op) :
        x \in Selectors, y \in Selectors, a \in Values, b \in Values, op \in AluOps }

\* d nested calls, then d returns; the outermost call returns to a jump to itself
RECURSIVE CallSlots(_, _)
CallSlots(k, d) ==
    IF k = d THEN Ins(0, 0, 14, 14)
    ELSE InsAddr(2, ProgramStart + 4 * (k + 1))
         \o (IF k = 0 THEN InsAddr(1, ProgramStart + 2) ELSE Ins(0, 0, 14, 14))
         \o CallSlots(k + 1, d)

CallPrograms == { CallSlots(0, d) : d \in 1..MaxDepth } \cup { Ins(0, 0, 14, 14) }

IndexValues == {512, 768, 4080, 4090, 4093, 4094, 4095}

\* V0 = a; V1 = b; Vx = c; I = nnn; Fx55; Fx65
StoreLoadPrograms ==
    { InsNN(6, 0, 17) \o InsNN(6, 1, 34) \o InsNN(6, x, 51) \o InsAddr(10, nnn)
      \o Ins(15, x, 5, 5) \o Ins(15, x, 6, 5) : x \in Nibble, nnn \in IndexValues }

\* I = nnn; V0 = v; F033 / Dxyn / F01E F01E F055
MemoryPrograms ==
    { InsAddr(10, nnn) \o InsNN(6, 0, v) \o tail :
        nnn \in IndexValues, v \in {0, 255},
        tail \in { Ins(15, 0, 3, 3), Ins(13, 0, 0, 2), Ins(13, 1, 1, 0),
                   Ins(15, 0, 1, 14) \o Ins(15, 0, 1, 14) \o Ins(15, 1, 5, 5),
                   Ins(15, 0, 1, 14) \o Ins(15, 0, 6, 5) } }

JumpPrograms ==
    { InsAddr(1, nnn) : nnn \in {0, 80, 4094, 4095} }
    \cup { InsNN(6, 0, v) \o InsAddr(11, nnn) : v \in {0, 255}, nnn \in {516, 4000, 4095} }

KeyPrograms ==
    { Ins(15, 0, 0, 10) \o Ins(15, 1, 0, 10) \o InsAddr(1, ProgramStart + 4),
      InsNN(6, 0, 5) \o Ins(14, 0, 9, 14) \o Ins(14, 0, 10, 1) \o InsAddr(1, ProgramStart + 2),
      InsNN(6, 0, 16) \o Ins(14, 0, 9, 14),
      InsNN(6, 0, 21) \o Ins(14, 0, 10, 1) }

OtherPrograms ==
    { \* the end-to-end examples: V0 = 5; V1 = 3; V0 += V1 and I = 0x200; D005
      InsNN(6, 0, 5) \o InsNN(6, 1, 3) \o Ins(8, 0, 1, 4),
      InsAddr(10, 512) \o Ins(13, 0, 0, 5),
      \* skips
      Concat(<< InsNN(6, 0, 5), InsNN(3, 0, 5), Ins(0, 0, 0, 0), InsNN(4, 0, 5),
                Ins(5, 0, 1, 0), Ins(9, 0, 1, 0), Ins(0, 0, 0, 0), InsNN(3, 0, 6),
                InsNN(4, 0, 6), Ins(0, 0, 0, 0), Ins(5, 0, 0, 0), Ins(0, 0, 0, 0),
                Ins(9, 0, 0, 0), InsNN(7, 0, 255), InsNN(12, 1, 3) >>),
      \* timers
      Concat(<< InsNN(6, 0, 3), Ins(15, 0, 1, 5), Ins(15, 0, 1, 8), Ins(15, 1, 0, 7),
                InsAddr(1, ProgramStart + 6) >>),
      \* glyphs drawn twice, then cleared
      Concat(<< InsNN(6, 0, 10), Ins(15, 0, 2, 9), Ins(13, 1, 1, 5), Ins(13, 1, 1, 5),
                Ins(0, 0, 14, 0), Ins(15, 0, 3, 3) >>),
      \* a sprite at the right and bottom edges, and at column 250
      Concat(<< InsNN(6, 0, 60), InsNN(6, 1, 30), Ins(13, 0, 1, 5) >>),
      Concat(<< InsNN(6, 0, 250), Ins(13, 0, 1, 1), Ins(13, 0, 1, 1) >>),
      Concat(<< InsNN(6, 0, 62), Ins(13, 0, 1, 5) >>),
      Concat(<< InsNN(6, 0, 62), InsNN(6, 1, 30), Ins(13, 0, 1, 5), Ins(13, 0, 1, 5) >>),
      \* glyph A at (0, 0), then glyph 0 twice at (2, 1), over it
      Concat(<< InsNN(6, 0, 10), Ins(15, 0, 2, 9), Ins(13, 1, 1, 5), InsNN(6, 2, 2),
                InsNN(6, 3, 1), InsNN(6, 0, 0), Ins(15, 0, 2, 9), Ins(13, 2, 3, 5),
                Ins(13, 2, 3, 5) >>),
      \* instruction words no arm matches
      Ins(5, 0, 0, 1), Ins(8, 0, 0, 8), Ins(9, 0, 0, 1), Ins(14, 0, 0, 0),
      Ins(15, 0, 0, 0), Ins(0, 1, 2, 3),
      \* an image that fills the memory: a jump to 0x200 in every slot
      [i \in 1..(RamSize - ProgramStart) |-> IF i % 2 = 1 THEN 18 ELSE 0] }

Sessions ==
    [program : AluPrograms \cup CallPrograms \cup StoreLoadPrograms, keys : {0}, ticks : {0}]
    \cup [program : MemoryPrograms \cup JumpPrograms, keys : {0}, ticks : {0}]
    \cup [program : OtherPrograms, keys : {0}, ticks : {MaxTicks}]
    \cup [program : KeyPrograms, keys : {MaxKeyEvents}, ticks : {0}]

Init ==
    \E session \in Sessions :
        /\ state = load_program(Default, session.program)
        /\ display = {}
        /\ keyboard = KeyboardNew
        /\ events = <<>>
        /\ beeper = "none"
        /\ phase = "dispatch"
        /\ wrapped = FALSE
        /\ last = NoInstruction
        /\ prev = NoInstruction
        /\ access = {}
        /\ calls = <<>>
        /\ keysLeft = session.keys
        /\ ticksLeft = session.ticks
        /\ program = session.program
        /\ drawn = <<>>
        /\ io = <<>>
        /\ timing = [tick |-> FALSE, delay |-> 0, sound |-> 0]
        /\ polled = [before |-> KeyboardNew, events |-> <<>>]
        /\ clock = NoClock

Next ==
    \/ FetchFault \/ ClearDisplay \/ Return \/ Jump \/ Call
    \/ SkipEqImm \/ SkipNeImm \/ SkipEqReg \/ LoadImm \/ AddImm
    \/ Move \/ Or \/ And \/ Xor \/ Add \/ Sub \/ ShiftRight \/ SubReverse \/ ShiftLeft
    \/ SkipNeReg \/ SetIndex \/ JumpOffset \/ Random \/ DrawSprite
    \/ SkipKeyDown \/ SkipKeyUp \/ GetDelay \/ WaitKey \/ SetDelay \/ SetSound
    \/ AddIndex \/ GlyphIndex \/ StoreDecimal \/ StoreRegisters \/ LoadRegisters
    \/ UnknownInstruction
    \/ TimerCheck \/ KeyEvent \/ Poll

Spec == Init /\ [][Next]_vars

----------------------------------------------------------------------------
(* The loop followed in time: its steps.                                   *)

\* max_duration_microseconds.saturating_sub(start_time.elapsed().as_micros())
leftover_time ==
    LET elapsed == as_micros(duration_since(clock.now, clock.start_time))
    IN  IF clock.handed > elapsed THEN clock.handed - elapsed ELSE 0

Running == phase \in {"dispatch", "timer", "poll", "polling"}

\* the time moves on by one unit; outside the sleep of the poll the loop is
\* held up by that much
Elapse ==
    /\ Running
    /\ clock.now < MaxTime
    /\ clock' = [clock EXCEPT !.now = @ + 1,
                              !.stalled = @ \/ phase # "polling" \/ leftover_time = 0]
    /\ UNCHANGED <<state, screen, keyboard, events, beeper, phase, wrapped, last, prev,
                   access, calls, keysLeft, ticksLeft, program, timing, polled>>

\* if timer.tick() { ... } with the Timer's own answer
TimedCheck ==
    /\ phase = "timer"
    /\ LET t == Timer_tick(clock)
       IN  /\ state' = TimerHandler(state, t.fired)
           /\ beeper' = BeeperSignal(state, t.fired, beeper)
           /\ timing' = [tick |-> t.fired, delay |-> state.delay_timer,
                         sound |-> state.sound_timer]
           /\ clock' = [clock EXCEPT !.last_tick = t.last_tick,
                                     !.fired = IF t.fired THEN @ + 1 ELSE @]
           /\ IF t.fired
              THEN \E ok \in BOOLEAN :
                      /\ io' = Called(io, "flush", ok)
                      /\ phase' = IF ok THEN "poll" ELSE "error"
              ELSE phase' = "poll" /\ io' = io
    /\ UNCHANGED <<display, drawn, keyboard, events, keysLeft, ticksLeft, program, wrapped,
                   last, prev, access, calls, polled>>

\* variant: the next due time is taken from the current time
PollStart_Resync ==
    /\ phase = "poll"
    /\ clock.cycles < MaxCycles
    /\ LET time_left == duration_since(clock.next_cpu_frame, clock.now)
       IN  clock' = [clock EXCEPT !.time_left = time_left,
                                  !.handed = as_micros(time_left),
                                  !.next_cpu_frame = clock.now + from_micros(clock.frame),
                                  !.cycles = @ + 1,
                                  !.start_time = clock.now,
                                  !.pending = Len(events)]
    /\ keyboard' = update_keystates(keyboard, <<>>)
    /\ polled' = [before |-> keyboard, events |-> <<>>]
    /\ phase' = "polling"
    /\ UNCHANGED <<state, screen, events, beeper, wrapped, last, prev, access, calls,
                   keysLeft, ticksLeft, program, timing>>

\* the pacing and the entry of update_keystates: time_left is taken from the
\* due time, the due time moves on by one frame, last_key_pressed = None
PollStart ==
    /\ phase = "poll"
    /\ clock.cycles < MaxCycles
    /\ LET time_left == duration_since(clock.next_cpu_frame, clock.now)
       IN  clock' = [clock EXCEPT !.time_left = time_left,
                                  !.handed = as_micros(time_left),
                                  !.next_cpu_frame = @ + from_micros(clock.frame),
                                  !.cycles = @ + 1,
                                  !.start_time = clock.now,
                                  !.pending = Len(events)]
    /\ keyboard' = update_keystates(keyboard, <<>>)
    /\ polled' = [before |-> keyboard, events |-> <<>>]
    /\ phase' = "polling"
    /\ UNCHANGED <<state, screen, events, beeper, wrapped, last, prev, access, calls,
                   keysLeft, ticksLeft, program, timing>>

\* a turn of the loop with time left and an event queued: event::poll and
\* event::read return it, or one of them returns an Err
PollRead ==
    /\ phase = "polling"
    /\ leftover_time > 0
    /\ events # <<>>
    /\ \E ok \in BOOLEAN :
          IF ok
          THEN /\ keyboard' = HandleEvent(keyboard, Head(events))
               /\ events' = Tail(events)
               /\ polled' = [polled EXCEPT !.events = Append(@, Head(events))]
               /\ UNCHANGED <<phase, io>>
          ELSE /\ phase' = "error"
               /\ io' = Called(io, "poll", FALSE)
               /\ UNCHANGED <<keyboard, events, polled>>
    /\ UNCHANGED <<state, display, drawn, beeper, wrapped, last, prev, access, calls,
                   keysLeft, ticksLeft, program, timing, clock>>

\* if leftover_time == 0 { break }
PollReturn ==
    /\ phase = "polling"
    /\ leftover_time = 0
    /\ phase' = "dispatch"
    /\ io' = Called(io, "poll", TRUE)
    /\ UNCHANGED <<state, display, drawn, keyboard, events, beeper, wrapped, last, prev,
                   access, calls, keysLeft, ticksLeft, program, timing, polled, clock>>

\* the key events of a timed run: the key 0 goes down
TimedKeys == {[code |-> "x", kind |-> "Press"]}

\* the terminal queues a key event, at any time
TimedKeyEvent ==
    /\ Running
    /\ keysLeft > 0
    /\ \E ev \in TimedKeys : events' = Append(events, ev)
    /\ keysLeft' = keysLeft - 1
    /\ UNCHANGED <<state, screen, keyboard, beeper, phase, wrapped, last, prev, access, calls,
                   ticksLeft, program, timing, polled, clock>>

\* V0 = 2; delay timer = V0; sound timer = V0; a jump to itself
TimedProgram ==
    InsNN(6, 0, 2) \o Ins(15, 0, 1, 5) \o Ins(15, 0, 1, 8) \o InsAddr(1, ProgramStart + 6)

TimedInit ==
    \E frame \in FrameTimes, created \in {0}, keys \in {0, 1} :
        /\ state = load_program(Default, TimedProgram)
        /\ display = {}
        /\ keyboard = KeyboardNew
        /\ events = <<>>
        /\ beeper = "none"
        /\ phase = "dispatch"
        /\ wrapped = FALSE
        /\ last = NoInstruction
        /\ prev = NoInstruction
        /\ access = {}
        /\ calls = <<>>
        /\ keysLeft = keys
        /\ ticksLeft = 0
        /\ program = TimedProgram
        /\ drawn = <<>>
        /\ io = <<>>
        /\ timing = [tick |-> FALSE, delay |-> 0, sound |-> 0]
        /\ polled = [before |-> KeyboardNew, events |-> <<>>]
        /\ clock = ClockNew(frame, created)

TimedNext ==
    \/ LoadImm \/ SetDelay \/ SetSound \/ Jump
    \/ Elapse \/ TimedCheck \/ PollStart \/ PollRead \/ PollReturn \/ TimedKeyEvent

TimedSpec == TimedInit /\ [][TimedNext]_vars

----------------------------------------------------------------------------
(* The instructions that compute a value, run on every byte.               *)

\* the registers written: an ordinary one and VF
Targets == {0, 15}

\* Vx = v; I = i; Fx33, with i + 2 inside the memory and outside it
DecimalPrograms ==
    { InsNN(6, x, v) \o InsAddr(10, i) \o Ins(15, x, 3, 3) :
        x \in Targets, v \in Byte, i \in {768, RamSize - 3, RamSize - 2} }

\* Vx = v; Fx29
GlyphPrograms ==
    { InsNN(6, x, v) \o Ins(15, x, 2, 9) : x \in Targets, v \in Byte }

\* VF = 1; Vx = a; Vx += nn and VF = 1; Vx = rand() & nn
AddPrograms ==
    { InsNN(6, 15, 1) \o InsNN(6, x, a) \o InsNN(7, x, nn) :
        x \in {0, 14, 15}, a \in Values, nn \in Values }
    \cup { InsNN(6, 15, 1) \o InsNN(12, x, nn) : x \in {0, 14, 15}, nn \in {0, 15, 255} }

\* Vx = a; Vy = b; 8xy0 .. 8xy3
LogicPrograms ==
    { InsNN(6, x, a) \o InsNN(6, y, b) \o Ins(8, x, y, op) :
        x \in Selectors, y \in Selectors, a \in Values, b \in Values, op \in 0..3 }

ValuePrograms == DecimalPrograms \cup GlyphPrograms \cup AddPrograms \cup LogicPrograms

ValueInit ==
    \E image \in ValuePrograms :
        /\ state = load_program(Default, image)
        /\ display = {}
        /\ keyboard = KeyboardNew
        /\ events = <<>>
        /\ beeper = "none"
        /\ phase = "dispatch"
        /\ wrapped = FALSE
        /\ last = NoInstruction
        /\ prev = NoInstruction
        /\ access = {}
        /\ calls = <<>>
        /\ keysLeft = 0
        /\ ticksLeft = 0
        /\ program = image
        /\ drawn = <<>>
        /\ io = <<>>
        /\ timing = [tick |-> FALSE, delay |-> 0, sound |-> 0]
        /\ polled = [before |-> KeyboardNew, events |-> <<>>]
        /\ clock = NoClock

ValueNext ==
    \/ LoadImm \/ AddImm \/ Move \/ Or \/ And \/ Xor \/ Random
    \/ SetIndex \/ GlyphIndex \/ StoreDecimal \/ UnknownInstruction
    \/ TimerCheck \/ Poll

ValueSpec == ValueInit /\ [][ValueNext]_vars

----------------------------------------------------------------------------
(* The instructions that report a flag in VF.                              *)

\* Vx = a; Vy = b; 8xy4, 8xy5, 8xy6, 8xy7 or 8xyE
FlagPrograms ==
    { InsNN(6, x, a) \o InsNN(6, y, b) \o Ins(8, x, y, op) :
        x \in Selectors, y \in Selectors, a \in Values, b \in Values,
        op \in {4, 5, 6, 7, 14} }

\* I = nnn; Vx = v; Fx1E
IndexPrograms ==
    { InsAddr(10, nnn) \o InsNN(6, x, v) \o Ins(15, x, 1, 14) :
        nnn \in {0, RamSize - 1}, x \in Targets, v \in Values }

\* I = 0xFFF; then VF = 255; I += VF; again until VF = 1, which is when the sum
\* has passed 0xFFFF
IndexOverflowProgram ==
    InsAddr(10, RamSize - 1) \o InsNN(6, 15, 255) \o Ins(15, 15, 1, 14)
        \o InsNN(3, 15, 1) \o InsAddr(1, ProgramStart + 2)

FlagInit ==
    \E image \in FlagPrograms \cup IndexPrograms \cup {IndexOverflowProgram} :
        /\ state = load_program(Default, image)
        /\ display = {}
        /\ keyboard = KeyboardNew
        /\ events = <<>>
        /\ beeper = "none"
        /\ phase = "dispatch"
        /\ wrapped = FALSE
        /\ last = NoInstruction
        /\ prev = NoInstruction
        /\ access = {}
        /\ calls = <<>>
        /\ keysLeft = 0
        /\ ticksLeft = 0
        /\ program = image
        /\ drawn = <<>>
        /\ io = <<>>
        /\ timing = [tick |-> FALSE, delay |-> 0, sound |-> 0]
        /\ polled = [before |-> KeyboardNew, events |-> <<>>]
        /\ clock = NoClock

FlagNext ==
    \/ LoadImm \/ Add \/ Sub \/ ShiftRight \/ SubReverse \/ ShiftLeft
    \/ SetIndex \/ AddIndex \/ SkipEqImm \/ Jump \/ UnknownInstruction
    \/ TimerCheck \/ Poll

FlagSpec == FlagInit /\ [][FlagNext]_vars

----------------------------------------------------------------------------
(* Properties.  `last` is the instruction dispatched last with the state   *)
(* it saw; Ran(w) says that it was w and that its arm ran to its end.      *)

Ran(w) == last.word = w /\ last.outcome = "ok"

V(i) == state.data_registers[i]

Bit(b) == IF b THEN 1 ELSE 0

\* C1 as stated: after 8xy4, for every x and y, VF = 1 if old Vx + old Vy > 255 and
\* 0 otherwise, and Vx = (old Vx + old Vy) mod 256.
C1_AddAsStated ==
    \A x \in Nibble, y \in Nibble :
        Ran(<<8, x, y, 4>>) =>
            /\ V(15) = Bit(last.before[x] + last.before[y] > 255)
            /\ V(x) = (last.before[x] + last.before[y]) % 256

\* C1 amended: after 8xy4, for every x and y, VF = 1 if old Vx + old Vy > 255 and 0
\* otherwise; and Vx = (old Vx + old Vy) mod 256 when x is not 15.
C1_AddCarry ==
    \A x \in Nibble, y \in Nibble :
        Ran(<<8, x, y, 4>>) =>
            /\ V(15) = Bit(last.before[x] + last.before[y] > 255)
            /\ x # 15 => V(x) = (last.before[x] + last.before[y]) % 256

\* an 8xy4 with x = 15 whose sum carried out of 8 bits
C1_Witness ==
    \E y \in Nibble :
        /\ Ran(<<8, 15, y, 4>>)
        /\ last.before[15] + last.before[y] > 255
        /\ (last.before[15] + last.before[y]) % 256 > 1
        /\ V(15) = 1

\* a - b in 8 bits
Diff8(a, b) == IF a >= b THEN a - b ELSE a - b + 256

\* C2: 8xy5 sets VF = 1 iff old Vx >= old Vy, 8xy7 sets VF = 1 iff old Vy >= old Vx
\* (equal operands give 1), and when x is not 15 Vx is the difference mod 256.
C2_SubBorrow ==
    \A x \in Nibble, y \in Nibble :
        /\ Ran(<<8, x, y, 5>>) =>
              /\ V(15) = Bit(last.before[x] >= last.before[y])
              /\ x # 15 => V(x) = Diff8(last.before[x], last.before[y])
        /\ Ran(<<8, x, y, 7>>) =>
              /\ V(15) = Bit(last.before[y] >= last.before[x])
              /\ x # 15 => V(x) = Diff8(last.before[y], last.before[x])

\* an 8xy5 on two registers holding the same nonzero value
C2_Witness ==
    \E x \in Nibble, y \in Nibble :
        /\ Ran(<<8, x, y, 5>>)
        /\ x # y /\ x # 15
        /\ last.before[x] = last.before[y] /\ last.before[x] > 0
        /\ V(15) = 1 /\ V(x) = 0

\* C3 as stated: after 8xy6 VF is the least-significant bit of the old Vx, and after
\* 8xyE VF is the most-significant bit of the old Vx.
C3_ShiftedOutBit ==
    \A x \in Nibble, y \in Nibble :
        /\ Ran(<<8, x, y, 6>>) => V(15) = last.before[x] % 2
        /\ Ran(<<8, x, y, 14>>) => V(15) = last.before[x] \div 128

\* C4 as stated: after 8xy6 VF = 1 if the old Vx is even and 0 otherwise, and after
\* 8xyE VF = 1 if the old Vx is below 128 and 0 otherwise.
C4_NoBitLost ==
    \A x \in Nibble, y \in Nibble :
        /\ Ran(<<8, x, y, 6>>) => V(15) = Bit(last.before[x] % 2 = 0)
        /\ Ran(<<8, x, y, 14>>) => V(15) = Bit(last.before[x] < 128)

\* C5: for x other than 15 and every y, after 8xy6 Vx = floor(old Vx / 2) and after
\* 8xyE Vx = (2 * old Vx) mod 256 whatever Vy holds, and Vy is unchanged when y is
\* neither x nor 15.
C5_ShiftIgnoresVy ==
    \A x \in Nibble \ {15}, y \in Nibble :
        /\ Ran(<<8, x, y, 6>>) =>
              /\ V(x) = last.before[x] \div 2
              /\ y \notin {x, 15} => V(y) = last.before[y]
        /\ Ran(<<8, x, y, 14>>) =>
              /\ V(x) = (2 * last.before[x]) % 256
              /\ y \notin {x, 15} => V(y) = last.before[y]

\* an 8xyE on Vx = 255 with another value in Vy
C5_Witness ==
    \E x \in Nibble \ {15}, y \in Nibble \ {15} :
        /\ Ran(<<8, x, y, 14>>)
        /\ x # y
        /\ last.before[x] = 255 /\ last.before[y] = 1
        /\ V(x) = 254 /\ V(y) = 1

\* C6: calls and returns match last-in-first-out: a 00EE dispatched while calls are
\* outstanding sets the counter to the address after the innermost outstanding 2nnn
\* and the stack pointer to its value before that 2nnn; so d returns after d calls
\* end with the pointer at its value before the first call.
C6_ReturnMatchesCall ==
    (Ran(<<0, 0, 14, 14>>) /\ last.frame # <<>>) =>
        /\ state.program_counter = last.frame[1].at + 2
        /\ state.stack_pointer = last.frame[1].sp

\* the last of 16 returns after 16 nested calls: back after the first call
C6_Witness ==
    /\ Ran(<<0, 0, 14, 14>>) /\ last.frame # <<>>
    /\ calls = <<>>
    /\ state.stack[16] = ProgramStart + 4 * 15 + 2
    /\ state.stack[17] = 0
    /\ state.stack_pointer = 0
    /\ state.program_counter = ProgramStart + 2

\* C7 as stated: in every reachable state the stack pointer is within 0..16.
C7_PointerWithinCapacity == state.stack_pointer \in 0..16

\* C8 as stated: every memory address a dispatch resolves is within 0..4095.
C8_AccessInsideMemory == \A a \in access : a \in 0..(RamSize - 1)

\* C9: an Fx0A dispatched while the keyboard reports no newly pressed key leaves the
\* counter at that Fx0A and every register as it was; one dispatched while the
\* keyboard reports the key k sets Vx = k, leaves the other registers and puts the
\* counter after the Fx0A.
C9_WaitKey ==
    \A x \in Nibble :
        Ran(<<15, x, 0, 10>>) =>
            IF last.key = <<>>
            THEN /\ state.program_counter = last.at
                 /\ state.data_registers = last.before
            ELSE /\ state.program_counter = last.at + 2
                 /\ state.data_registers = [last.before EXCEPT ![x] = last.key[1]]

\* the second Fx0A of a program got key 5 after the first one got another key
C9_Witness ==
    /\ Ran(<<15, 1, 0, 10>>)
    /\ last.key = <<5>>
    /\ V(1) = 5 /\ V(0) # 5
    /\ state.program_counter = ProgramStart + 4

\* C10: an Fx65 dispatched right after an Fx55 with the same x and the same index
\* register, index + x inside the memory, leaves V0..Vx as they were before the Fx55
\* and memory[index + i] = Vi for every i in 0..x.
C10_StoreLoadRoundTrip ==
    \A x \in Nibble :
        ( /\ Ran(<<15, x, 6, 5>>)
          /\ prev.word = <<15, x, 5, 5>> /\ prev.outcome = "ok"
          /\ prev.index = last.index ) =>
            \A i \in 0..x :
                /\ V(i) = prev.before[i]
                /\ state.ram[last.index + i] = V(i)

\* F555 then F565 at index 4090 = 4095 - 5 (the last cell is the memory's last)
C10_Witness ==
    /\ Ran(<<15, 5, 6, 5>>)
    /\ prev.word = <<15, 5, 5, 5>> /\ prev.outcome = "ok"
    /\ prev.index = RamSize - 6 /\ last.index = RamSize - 6
    /\ V(0) = 17 /\ V(1) = 34 /\ V(5) = 51
    /\ state.ram[RamSize - 1] = 51

----------------------------------------------------------------------------
(* The display.                                                            *)

\* the draw called last, and the one called before it
LastDraw == drawn[Len(drawn)]

PrevDraw == drawn[Len(drawn) - 1]

\* the last instruction was a Dxyn whose draw returned
RanDraw == last.outcome = "ok" /\ last.word # <<>> /\ last.word[1] = 13 /\ drawn # <<>>

\* the bitmap indices of the pixels that a sprite bit addresses inside the
\* 64x32 bitmap: bit j of byte i at column x + j < 64 and row y + i < 32
InsideBits(x, y, data) ==
    { (y + i - 1) * DisplayWidth + (x + j) :
        i \in { k \in 1..Len(data) : y + k - 1 < DisplaySize \div DisplayWidth },
        j \in { k \in 0..7 : x + k < DisplayWidth } }

\* the pixels whose value differs between two bitmaps
Changed(b1, b2) == (b1 \ b2) \cup (b2 \ b1)

\* C11: a sprite bit whose column x + j is 64 or more, or whose row y + i is
\* 32 or more, changes no pixel: every pixel a draw changes is addressed by a
\* sprite bit inside the bitmap.
C11_OutsideDropped ==
    RanDraw => Changed(LastDraw.before, LastDraw.after)
                  \subseteq InsideBits(LastDraw.x, LastDraw.y, LastDraw.data)

\* the same sprite drawn twice in succession at the same position
DrawnTwice ==
    /\ RanDraw /\ Len(drawn) = 2
    /\ prev.outcome = "ok" /\ prev.word = last.word /\ last.at = prev.at + 2
    /\ LastDraw.x = PrevDraw.x /\ LastDraw.y = PrevDraw.y
    /\ LastDraw.data = PrevDraw.data
    /\ LastDraw.before = PrevDraw.after

\* C12: drawing the same sprite at the same position twice in succession
\* restores the bitmap, and the second draw reports a collision whenever the
\* first draw left a pixel of the sprite lit.
C12_DrawTwiceRestores ==
    DrawnTwice =>
        /\ display = PrevDraw.before
        /\ (PrevDraw.after \ PrevDraw.before # {}) => LastDraw.flag

\* twice over a bitmap that is not blank, with a collision in the second draw
\* and none in the first; and twice across the right and bottom edges
C12_Witness ==
    /\ DrawnTwice
    /\ \/ PrevDraw.before # {} /\ LastDraw.flag /\ ~PrevDraw.flag
       \/ PrevDraw.x = 62 /\ PrevDraw.y = 30 /\ LastDraw.flag

\* C13: Dxyn sets VF to 1 if a pixel went from lit to unlit in the draw of
\* ram[index .. index + n] at (Vx, Vy) and to 0 otherwise; VF is 0 after a
\* draw onto a blank display.
C13_FlagIsCollision ==
    RanDraw =>
        /\ LastDraw.x = last.before[last.word[2]]
        /\ LastDraw.y = last.before[last.word[3]]
        /\ LastDraw.data = [i \in 1..last.word[4] |-> state.ram[last.index + i - 1]]
        /\ LastDraw.before = {} => V(15) = 0
        /\ V(15) = Bit(LastDraw.before \ display # {})

\* a draw that cleared a pixel, and one onto a blank display that lit pixels
C13_Witness ==
    /\ RanDraw
    /\ \/ V(15) = 1 /\ LastDraw.before \ display # {} /\ last.before[15] = 0
       \/ LastDraw.before = {} /\ display # {} /\ last.word = <<13, 0, 0, 5>>
             /\ last.index = ProgramStart

----------------------------------------------------------------------------
(* The end of the run.                                                     *)

\* the peripheral call made last, and whether any was made
LastCall == io[Len(io)]

\* the last instruction word matched no arm
Undecoded == last.word # <<>> /\ ~Known(last.word)

\* C14: an instruction word that matches no pattern is fatal: the bitmap is
\* cleared and the run is over in that cycle (no later instruction, timer
\* check or poll); when no Display call fails, clear and then flush were the
\* last calls and the run ends by the abort, otherwise it ends with the
\* failed call (clear, or flush after clear).
C14_UnknownIsFatal ==
    Undecoded =>
        /\ phase \in {"panic", "error"}
        /\ display = {}
        /\ phase = "panic" =>
              /\ last.outcome = "panic"
              /\ io = << [op |-> "clear", ok |-> TRUE], [op |-> "flush", ok |-> TRUE] >>
        /\ phase = "error" =>
              /\ last.outcome = "error"
              /\ \/ LastCall = [op |-> "clear", ok |-> FALSE]
                 \/ io = << [op |-> "clear", ok |-> TRUE], [op |-> "flush", ok |-> FALSE] >>

\* the all-zero word after the end of a program that drew, and the abort
C14_Witness ==
    /\ Undecoded /\ last.word = <<0, 0, 0, 0>> /\ phase = "panic"
    /\ drawn # <<>> /\ LastDraw.after # {} /\ display = {}

\* C15: a failed Display call or keyboard poll ends the run in its cycle: the
\* run is over with an Err exactly when a call has failed, the failed call is
\* the last call made, a failed clear or draw belongs to the instruction
\* dispatched last, and a failed draw leaves VF as it was.
C15_FailureEndsRun ==
    /\ \A i \in 1..Len(io) : ~io[i].ok => i = Len(io) /\ phase = "error"
    /\ phase = "error" =>
          /\ io # <<>> /\ ~LastCall.ok
          /\ LastCall.op \in {"clear", "draw"} => last.outcome = "error"
          /\ LastCall.op = "poll" => last.outcome = "ok"
          /\ LastCall.op = "draw" =>
                /\ last.word[1] = 13
                /\ state.data_registers = last.before
                /\ state.program_counter = last.at + 2

\* a draw that cleared a pixel and failed: VF is still 0
C15_Witness ==
    /\ phase = "error" /\ LastCall = [op |-> "draw", ok |-> FALSE]
    /\ LastDraw.flag /\ V(15) = 0

\* C16: the run stops only with a fatal decode error or a propagated
\* peripheral error.
C16_StopsOnlyOnDecodeOrPeripheral ==
    phase \notin {"dispatch", "timer", "poll"} =>
        \/ phase = "error" /\ io # <<>> /\ ~LastCall.ok
        \/ phase = "panic" /\ Undecoded /\ last.outcome = "panic"

----------------------------------------------------------------------------
(* The loaded image and the program counter.                               *)

\* the state run_program starts its loop in: nothing dispatched yet
Fresh == last = NoInstruction /\ phase = "dispatch" /\ access = {}

\* C17: after the load, the glyph of digit d is at 5*d .. 5*d+4, the program
\* bytes are at 0x200 onwards, every other byte is 0, the counter is 0x200,
\* and the stack pointer, the registers, the index register and the timers
\* are 0.
C17_LoadedImage ==
    (Fresh /\ Len(program) <= RamSize - ProgramStart) =>
        /\ \A d \in 0..15 : \A k \in 0..4 : state.ram[5 * d + k] = FONT[5 * d + k + 1]
        /\ \A i \in 1..Len(program) : state.ram[ProgramStart + i - 1] = program[i]
        /\ \A a \in 0..(RamSize - 1) :
              (a >= 80 /\ (a < ProgramStart \/ a >= ProgramStart + Len(program)))
                  => state.ram[a] = 0
        /\ state.program_counter = ProgramStart
        /\ state.stack_pointer = 0
        /\ \A r \in 0..15 : state.data_registers[r] = 0
        /\ state.index_register = 0
        /\ state.delay_timer = 0 /\ state.sound_timer = 0

\* an image of 4096 - 512 bytes, loaded
C17_Witness ==
    /\ Fresh /\ Len(program) = RamSize - ProgramStart
    /\ state.ram[RamSize - 2] = 18 /\ state.ram[0] = 240

\* the instructions that set the counter themselves
Jumping(w) == w[1] \in {1, 2, 11} \/ w = <<0, 0, 14, 14>>

\* Fx0A with no key pressed
Waiting == last.word[1] = 15 /\ last.word[3] = 0 /\ last.word[4] = 10 /\ last.key = <<>>

\* the skip condition of the instruction w, on the registers regs and the
\* set held of the keys held down
SkipHolds(w, regs, held) ==
    CASE w[1] = 3 -> regs[w[2]] = w[3] * 16 + w[4]
      [] w[1] = 4 -> regs[w[2]] # w[3] * 16 + w[4]
      [] w[1] = 5 -> regs[w[2]] = regs[w[3]]
      [] w[1] = 9 -> regs[w[2]] # regs[w[3]]
      [] w[1] = 14 /\ w[3] = 9 -> regs[w[2]] \in held
      [] w[1] = 14 /\ w[3] = 10 -> regs[w[2]] \notin held
      [] OTHER -> FALSE

----------------------------------------------------------------------------
(* The timers and the beeper.                                              *)

\* the timer check of this pass is done: timing is what it saw
TimerChecked ==
    \/ phase = "poll"
    \/ phase = "error" /\ LastCall.op = "flush" /\ last.outcome = "ok"

\* a countdown timer one tick after it held the value t
TickedDown(t) == IF t = 0 THEN 0 ELSE t - 1

\* what the timer check did to the timers
C19_TimerCheckCounts ==
    TimerChecked =>
        /\ state.delay_timer \in 0..255 /\ state.sound_timer \in 0..255
        /\ timing.tick =>
              /\ state.delay_timer = TickedDown(timing.delay)
              /\ state.sound_timer = TickedDown(timing.sound)
        /\ ~timing.tick =>
              /\ state.delay_timer = timing.delay
              /\ state.sound_timer = timing.sound

\* the step is the execution of the instruction Fx<a><b>
Executes(a, b) ==
    /\ phase = "dispatch" /\ phase' = "timer"
    /\ last'.word[1] = 15 /\ last'.word[3] = a /\ last'.word[4] = b

\* a step that is not a write by Fx15 (Fx18) does not raise the delay (sound) timer
C19_NoRise ==
    /\ ~Executes(1, 5) => state'.delay_timer <= state.delay_timer
    /\ ~Executes(1, 8) => state'.sound_timer <= state.sound_timer

\* C19: on a timer tick each timer is decremented by 1 if nonzero and left at
\* 0 if zero; in a cycle without a tick the timer check changes neither; and
\* between two writes by Fx15 (Fx18) the delay (sound) timer never increases.
C19_TimersCountDown == [](C19_TimerCheckCounts) /\ [][C19_NoRise]_vars

\* a tick that found the delay timer at 0 after it had counted down from 3
C19_Witness ==
    /\ phase = "poll" /\ timing.tick /\ timing.delay = 0 /\ state.delay_timer = 0
    /\ ticksLeft = 0 /\ V(1) \in 1..3

\* C20 as stated: after a tick the last signal is play exactly when the sound
\* timer, as decremented, is nonzero.
C20_PlayIffNonzeroAfter ==
    (TimerChecked /\ timing.tick) => (beeper = "play" <=> state.sound_timer > 0)

\* C20, amended: on a tick play is signalled if the sound timer was nonzero
\* before the decrement of that tick and pause otherwise, so after a tick
\* the last signal is play exactly when the sound timer was nonzero before it.
C20_PlayIffNonzeroBefore ==
    (TimerChecked /\ timing.tick) =>
        /\ beeper \in {"play", "pause"}
        /\ beeper = "play" <=> timing.sound > 0

\* the tick that takes the sound timer from 1 to 0 signals play
C20_Witness ==
    /\ phase = "poll" /\ timing.tick /\ timing.sound = 1
    /\ state.sound_timer = 0 /\ beeper = "play"

----------------------------------------------------------------------------
(* Properties of the loop followed in time, under TimedSpec.               *)

\* the step that calls Timer::tick
TimerCalled == phase = "timer" /\ phase' # "timer"

\* whole intervals gone by since the timer was created
IntervalsElapsed == (clock.now - clock.created) \div Interval

\* C21 (the calls): a call to tick() fires iff at least one interval has gone by
\* since last_tick; a firing call moves last_tick on by exactly one interval and
\* counts one tick, a call that does not fire leaves last_tick and the count alone.
C21_TickStep ==
    TimerCalled =>
        LET due == clock.now - clock.last_tick >= Interval
        IN  /\ timing'.tick = due
            /\ clock'.last_tick = clock.last_tick + (IF due THEN Interval ELSE 0)
            /\ clock'.fired = clock.fired + (IF due THEN 1 ELSE 0)

\* C21 (the count): last_tick is the creation time plus one interval per tick
\* fired, and never later than now: no more ticks have fired than whole intervals
\* have gone by since the timer was created.
C21_NeverAhead ==
    /\ clock.last_tick = clock.created + clock.fired * Interval
    /\ clock.last_tick <= clock.now
    /\ clock.fired <= IntervalsElapsed

\* C21: the timer clock never coalesces missed ticks: tick() fires iff an interval
\* has gone by since its due reference, a firing call advances the reference by
\* exactly one interval (so that after a stall of k intervals the next k calls
\* fire one tick each), and the ticks fired never exceed the intervals elapsed.
C21_NoCoalescing == [](C21_NeverAhead) /\ [][C21_TickStep]_vars

\* a call fired after a stall of two intervals or more: the next call is due too
C21_Witness ==
    /\ phase = "poll" /\ timing.tick
    /\ clock.fired >= 1
    /\ clock.now - clock.last_tick >= Interval
    /\ IntervalsElapsed > clock.fired

\* intervals gone by whose tick has not been applied to the timers
Lag == IntervalsElapsed - clock.fired

\* C22: the timers are decremented at the fixed 60 Hz rate whatever the
\* instruction rate: as long as nothing holds the loop up, the ticks applied stay
\* within one tick of the whole intervals elapsed, for every frame time.
C22_LagBounded == ~clock.stalled => Lag <= 1

\* the same for the frame times that are shorter than the timer interval
C22_LagBoundedWhenFast ==
    (~clock.stalled /\ from_micros(clock.frame) < Interval) => Lag <= 1

\* the due time of the cycle whose poll was started last
DueTime == clock.start + clock.cycles * from_micros(clock.frame)

\* the time by which that poll was started early (0 when it was late)
EarlyBy == IF DueTime > clock.start_time THEN DueTime - clock.start_time ELSE 0

\* C23 (the due time): after the k-th cycle the next due time is
\* start + (k+1) * budget, whatever the time was when the cycles were paced.
C23_Additive ==
    clock.next_cpu_frame = clock.start + (clock.cycles + 1) * from_micros(clock.frame)

\* C23 as stated: the instruction clock is rescheduled additively, and the budget
\* handed to the keyboard poll in each cycle is max(0, due time - now).
C23_BudgetIsTimeLeft ==
    /\ C23_Additive
    /\ clock.cycles > 0 => from_micros(clock.handed) = EarlyBy

\* C23: the instruction clock is rescheduled additively, and the budget handed to
\* the keyboard poll in each cycle is max(0, due time - now) in whole
\* microseconds, the rest dropped: zero when the cycle is late or less than a
\* microsecond early.
C23_BudgetIsWholeMicros ==
    /\ C23_Additive
    /\ clock.cycles > 0 => /\ clock.handed = EarlyBy \div Micro
                           /\ clock.time_left = EarlyBy
                           /\ clock.start_time > DueTime => clock.handed = 0

\* a second cycle that is paced late, after a stall, and is handed no time
C23_Witness ==
    /\ phase = "polling"
    /\ clock.cycles = 2
    /\ clock.frame > 0
    /\ clock.start_time > DueTime
    /\ clock.handed = 0


\* update_keystates has returned from the poll started last
PollReturned == phase = "dispatch" /\ clock.cycles > 0

\* C25: every per-cycle keyboard poll updates the input state from the pending
\* key events, for every budget handed to it, zero included: when the poll has
\* returned, the events that were queued when it started have all been read and
\* the held keys are those they leave.
C25_PendingEventsApplied ==
    PollReturned =>
        /\ Len(polled.events) >= clock.pending
        /\ keyboard = update_keystates(polled.before, polled.events)

\* a poll that is handed zero microseconds reads no event at all
C25_ZeroBudgetReadsNothing ==
    (PollReturned /\ clock.handed = 0) =>
        /\ polled.events = <<>>
        /\ keyboard.key_states = polled.before.key_states

----------------------------------------------------------------------------
(* Properties of the order of the loop, under Spec.                        *)

\* no instruction is dispatched in the step
NoDispatch ==
    /\ last' = last /\ prev' = prev /\ access' = access
    /\ state'.program_counter = state.program_counter
    /\ state'.data_registers = state.data_registers
    /\ state'.ram = state.ram /\ state'.stack = state.stack
    /\ state'.index_register = state.index_register
    /\ state'.stack_pointer = state.stack_pointer

\* the step dispatches exactly one instruction and goes on to the timer check,
\* unless the instruction ended the run; or the fetch itself panics
OneDispatch ==
    /\ \/ /\ prev' = last
          /\ last'.at = state.program_counter
          /\ last'.outcome \in {"ok", "panic", "error"}
          /\ phase' = (CASE last'.outcome = "ok" -> "timer"
                         [] last'.outcome = "panic" -> "panic"
                         [] OTHER -> "error")
       \/ /\ state.program_counter + 1 >= RamSize
          /\ UNCHANGED <<state, last, prev>>
          /\ phase' = "panic"
    /\ UNCHANGED <<keyboard, events, beeper, timing, polled>>

\* the step checks the timer once: on a tick the timers are handled, the beeper
\* is signalled and the display is flushed last; then the poll follows, unless
\* the flush failed
OneTimerCheck ==
    /\ NoDispatch
    /\ UNCHANGED <<keyboard, events, polled>>
    /\ IF timing'.tick
       THEN /\ state' = TimerHandler(state, TRUE)
            /\ beeper' \in {"play", "pause"}
            /\ io' # <<>> /\ io'[Len(io')].op = "flush"
            /\ phase' = IF io'[Len(io')].ok THEN "poll" ELSE "error"
       ELSE /\ UNCHANGED <<state, beeper, io>>
            /\ phase' = "poll"

\* the step belongs to the one poll of the cycle: the terminal queues an event,
\* or update_keystates returns and the next instruction is fetched unless it
\* returned an Err
OnePoll ==
    /\ NoDispatch
    /\ UNCHANGED <<state, beeper, timing>>
    /\ \/ phase' = "poll" /\ UNCHANGED <<keyboard, polled, io>>
       \/ /\ io' # <<>> /\ io'[Len(io')].op = "poll"
          /\ phase' = IF io'[Len(io')].ok THEN "dispatch" ELSE "error"

\* C24: every cycle has the same order of events: exactly one instruction is
\* dispatched, then the timer clock is checked once (on a tick: timers, beeper
\* signal, display flush), then exactly one keyboard poll is made; no instruction
\* is dispatched between a tick's handling and the poll, nor two without a poll
\* between them, and nothing follows a panic or an error.
C24_CycleStep ==
    CASE phase = "dispatch" -> OneDispatch
      [] phase = "timer" -> OneTimerCheck
      [] phase = "poll" -> OnePoll
      [] OTHER -> FALSE

C24_SameOrderEveryCycle == [][C24_CycleStep]_vars

\* a second instruction was dispatched after a tick with its flush and a poll
C24_Witness ==
    /\ phase = "timer"
    /\ prev.outcome = "ok" /\ last.outcome = "ok"
    /\ timing.tick
    /\ io = <<[op |-> "flush", ok |-> TRUE], [op |-> "poll", ok |-> TRUE]>>

----------------------------------------------------------------------------
(* Properties of the keyboard, under Spec.  `polled` holds the keyboard    *)
(* before the last poll and the events that poll read.                     *)

Latest(S) == CHOOSE m \in S : \A n \in S : n <= m

\* the i-th event the last poll read is an event of kind `kind` for key k
IsEvent(i, k, kinds) ==
    crossterm_keymap(polled.events[i].code) = <<k>> /\ polled.events[i].kind \in kinds

\* key k is held once the first i events are read: by its last press or release
\* among them, or as it was before the poll when there is none
HeldAfter(k, i) ==
    LET changes == {j \in 1..i : IsEvent(j, k, {"Press", "Release"})}
    IN  IF changes = {} THEN k \in polled.before.key_states
        ELSE polled.events[Latest(changes)].kind = "Press"

\* the presses the last poll read of keys that were not held at that moment
NewPresses ==
    {j \in 1..Len(polled.events) :
        \E k \in Nibble : IsEvent(j, k, {"Press"}) /\ ~HeldAfter(k, j - 1)}

\* the recorded key is that of the last new press, none if there was none
LastPressedIsLastNewPress ==
    keyboard.last_key_pressed =
        IF NewPresses = {} THEN <<>>
        ELSE crossterm_keymap(polled.events[Latest(NewPresses)].code)

\* C26 as stated: key k is held iff the last event read for k, of any kind, was a
\* press, or k was held before and no release of k was read.
C26_HeldByLastEvent ==
    /\ \A k \in Nibble :
          k \in keyboard.key_states <=>
             \/ LET any == {j \in 1..Len(polled.events) :
                               IsEvent(j, k, {"Press", "Release", "Repeat"})}
                IN  any # {} /\ polled.events[Latest(any)].kind = "Press"
             \/ /\ k \in polled.before.key_states
                /\ \A j \in 1..Len(polled.events) : ~IsEvent(j, k, {"Release"})
    /\ LastPressedIsLastNewPress

\* C26: after a poll, key k is held iff the last press or release read for k was a
\* press (or k was held before and no release of k was read); the recorded key is
\* that of the last press read of a key not held at that moment, none if there
\* was none; a press of a held key and a repeat record nothing.
C26_HeldByLastPressOrRelease ==
    /\ \A k \in Nibble : k \in keyboard.key_states <=> HeldAfter(k, Len(polled.events))
    /\ \A k \in Nibble :
          k \in keyboard.key_states <=>
             \/ LET changes == {j \in 1..Len(polled.events) :
                                   IsEvent(j, k, {"Press", "Release"})}
                IN  changes # {} /\ polled.events[Latest(changes)].kind = "Press"
             \/ /\ k \in polled.before.key_states
                /\ \A j \in 1..Len(polled.events) : ~IsEvent(j, k, {"Release"})
    /\ LastPressedIsLastNewPress

\* a poll read a second press of the key 0, held since an earlier poll, and
\* recorded nothing
C26_Witness ==
    /\ polled.before.key_states = {0}
    /\ polled.events = <<[code |-> "x", kind |-> "Press"]>>
    /\ keyboard = [key_states |-> {0}, last_key_pressed |-> <<>>]

\* the record r is an Fx0A whose arm ran to its end
IsWaitKey(r) ==
    r.outcome = "ok" /\ r.word # <<>> /\ r.word[1] = 15 /\ r.word[3] = 0 /\ r.word[4] = 10

\* between the dispatch of `last` and the next poll, `polled` is the poll that
\* came right before `last`
BeforeNextPoll == phase \in {"timer", "poll"}

\* C27 (one press, one Fx0A): an Fx0A receives a key only if the poll right
\* before it read a press of a key that was not held, and it receives the key of
\* the last such press.
C27_ReceivedKeyIsNewPress ==
    (BeforeNextPoll /\ IsWaitKey(last) /\ last.key # <<>>) =>
        /\ NewPresses # {}
        /\ last.key = crossterm_keymap(polled.events[Latest(NewPresses)].code)

\* C27 (the following Fx0A): an Fx0A dispatched when the poll right before it read
\* no new press waits (the program counter is back on it, no register changed),
\* also when the Fx0A before it received a key that is still held.
C27_NoNewPressWaits ==
    (BeforeNextPoll /\ IsWaitKey(last) /\ NewPresses = {}) =>
        /\ last.key = <<>>
        /\ state.program_counter = last.at
        /\ state.data_registers = last.before

\* C27: a newly pressed key is consumed: one key press satisfies at most one Fx0A;
\* after an Fx0A has received key k, a following Fx0A with no new press in
\* between waits instead of receiving k again.
C27_PressConsumed == C27_ReceivedKeyIsNewPress /\ C27_NoNewPressWaits

\* the first Fx0A received the key 0; the second one, dispatched next with the
\* key 0 still held and no event read in between, waits
C27_Witness ==
    /\ phase = "timer"
    /\ IsWaitKey(prev) /\ prev.key = <<0>> /\ prev.word[2] = 0
    /\ IsWaitKey(last) /\ last.word[2] = 1 /\ last.key = <<>>
    /\ polled.events = <<>>
    /\ 0 \in keyboard.key_states
    /\ state.program_counter = last.at

----------------------------------------------------------------------------
(* Properties of the instructions that compute a value, under ValueSpec.   *)

\* the step dispatches the instruction word w
Dispatches(w) == Fetching /\ Instr = w

\* the step leaves everything of the machine but the program counter, which
\* moves to the next instruction, and the registers in xs and the memory cells
\* in cells
OnlyChanges(xs, cells) ==
    /\ phase' = "timer"
    /\ state'.program_counter = state.program_counter + 2
    /\ \A r \in 0..(NumRegisters - 1) :
          r \notin xs => state'.data_registers[r] = state.data_registers[r]
    /\ \A a \in 0..(RamSize - 1) : a \notin cells => state'.ram[a] = state.ram[a]
    /\ state'.index_register = state.index_register
    /\ state'.stack = state.stack
    /\ state'.stack_pointer = state.stack_pointer
    /\ state'.delay_timer = state.delay_timer
    /\ state'.sound_timer = state.sound_timer

\* C28: Fx33 stores the decimal digits of Vx: for every 8-bit value v of Vx and
\* every index i with i+2 inside the memory, afterwards memory[i] = hundreds,
\* memory[i+1] = tens, memory[i+2] = ones, each in 0..9, with
\* 100*memory[i] + 10*memory[i+1] + memory[i+2] = v; no register, not the index
\* register and no other memory byte changes.
C28_DecimalStep ==
    \A x \in Nibble :
        (Dispatches(<<15, x, 3, 3>>) /\ state.index_register + 2 < RamSize) =>
            LET v == state.data_registers[x]
                i == state.index_register
                digits == <<state'.ram[i], state'.ram[i + 1], state'.ram[i + 2]>>
            IN  /\ \A j \in 1..3 : digits[j] \in 0..9
                /\ 100 * digits[1] + 10 * digits[2] + digits[3] = v
                /\ OnlyChanges({}, {i, i + 1, i + 2})

C28_DecimalDigits == [][C28_DecimalStep]_vars

\* Fx33 has stored 2, 5, 5 for VF = 255 in the last three bytes of the memory
C28_Witness ==
    /\ Ran(<<15, 15, 3, 3>>)
    /\ V(15) = 255
    /\ state.index_register = RamSize - 3
    /\ state.ram[RamSize - 3] = 2 /\ state.ram[RamSize - 2] = 5 /\ state.ram[RamSize - 1] = 5

\* the font table 0x000..0x04F
FontTable == 0..(Len(FONT) - 1)

\* the Fx29 dispatched last, with its x and the Vx it saw
RanGlyphIndex(x) == Ran(<<15, x, 2, 9>>)

\* C29 (index and glyph): Fx29 sets index = 5 * Vx, and for Vx in 0..15, the
\* program not having written into the font table, memory[index..index+4] are
\* the five bytes of the built-in glyph of the hex digit Vx.
C29_IndexAndGlyph ==
    \A x \in Nibble :
        RanGlyphIndex(x) =>
            /\ state.index_register = 5 * last.before[x]
            /\ last.before[x] \in Nibble =>
                  \A j \in 0..4 :
                      state.ram[state.index_register + j] = FONT[5 * last.before[x] + j + 1]

\* C29 as stated: index = 5 * Vx with the glyph of Vx for Vx in 0..15, and the
\* index never leaves the font table 0x000..0x04F after Fx29.
C29_IndexInFontTable ==
    /\ C29_IndexAndGlyph
    /\ \A x \in Nibble : RanGlyphIndex(x) => state.index_register \in FontTable

\* C29: index = 5 * Vx with the glyph of Vx for Vx in 0..15; for Vx in 0..15 the
\* glyph pointed at lies inside the font table 0x000..0x04F, and for a Vx above
\* 15 the index is outside the table.
C29_IndexInFontTableForDigits ==
    /\ C29_IndexAndGlyph
    /\ \A x \in Nibble :
          RanGlyphIndex(x) =>
             IF last.before[x] \in Nibble
             THEN {state.index_register + j : j \in 0..4} \subseteq FontTable
             ELSE state.index_register \notin FontTable

\* Fx29 with V0 = 15 points at the glyph of F, the last five bytes of the table
C29_Witness ==
    /\ RanGlyphIndex(0)
    /\ V(0) = 15
    /\ state.index_register = 75
    /\ <<state.ram[75], state.ram[76], state.ram[77], state.ram[78], state.ram[79]>>
          = <<240, 128, 240, 128, 128>>

\* the instruction fetched is 6xnn, 7xnn, 8xy0, 8xy1, 8xy2, 8xy3 or Cxnn
NoFlagOutput == nibble_0 \in {6, 7, 12} \/ (nibble_0 = 8 /\ nibble_3 \in 0..3)

\* C30: instructions without a flag output never write the flag register: for
\* every x other than 15, executing 6xnn, 7xnn (Vx = (Vx + nn) mod 256, also when
\* the sum exceeds 255), 8xy0, 8xy1, 8xy2, 8xy3 or Cxnn changes Vx only and leaves
\* VF and every other register, the index register, the stack, memory and both
\* timers unchanged.
C30_NoFlagStep ==
    (Fetching /\ NoFlagOutput /\ nibble_1 # 15) =>
        /\ OnlyChanges({nibble_1}, {})
        /\ nibble_0 = 6 => state'.data_registers[nibble_1] = immediate_value
        /\ nibble_0 = 7 =>
              state'.data_registers[nibble_1]
                 = (state.data_registers[nibble_1] + immediate_value) % 256
        /\ (nibble_0 = 8 /\ nibble_3 = 0) =>
              state'.data_registers[nibble_1] = state.data_registers[nibble_2]
        /\ nibble_0 = 12 =>
              BitAnd(state'.data_registers[nibble_1], immediate_value)
                 = state'.data_registers[nibble_1]
        /\ state'.data_registers[nibble_1] \in Byte

C30_FlagUntouched == [][C30_NoFlagStep]_vars

\* 7xnn has added 255 to V0 = 255: V0 is 254 and VF is still the 1 it was
C30_Witness ==
    /\ Ran(<<7, 0, 15, 15>>)
    /\ last.before[0] = 255 /\ last.before[15] = 1
    /\ V(0) = 254
    /\ V(15) = 1

----------------------------------------------------------------------------
(* Properties of the instructions that report a flag, under FlagSpec.      *)

\* the instruction fetched is 8xy4, 8xy5, 8xy6, 8xy7, 8xyE or Fx1E
FlagOutput ==
    \/ nibble_0 = 8 /\ nibble_3 \in {4, 5, 6, 7, 14}
    \/ nibble_0 = 15 /\ nibble_2 = 1 /\ nibble_3 = 14

\* the flag the instruction fetched reports, on the registers it sees: the
\* carry of the sum, no borrow in the difference, the carry out of the 16 bits
\* of the index register; the two shifts report 1 whatever they shift out
FlagReported ==
    LET vx == state.data_registers[nibble_1]
        vy == state.data_registers[nibble_2]
    IN  CASE nibble_0 = 15 -> state.index_register + vx > 65535
          [] nibble_3 = 4 -> vx + vy > 255
          [] nibble_3 = 5 -> vx >= vy
          [] nibble_3 = 7 -> vy >= vx
          [] OTHER -> TRUE

\* C31: the flag is written last: each flag-producing instruction (8xy4, 8xy5,
\* 8xy6, 8xy7, 8xyE, and Fx1E for the index register) ends with VF holding the
\* flag, 0 or 1, for every x; when x is 15 this is the flag and not the
\* arithmetic result.
C31_FlagStep ==
    (Fetching /\ FlagOutput) =>
        /\ phase' = "timer"
        /\ state'.data_registers[15] \in {0, 1}
        /\ state'.data_registers[15] = (IF FlagReported THEN 1 ELSE 0)

C31_FlagWrittenLast == [][C31_FlagStep]_vars

\* 8F07 with VF = 1 and V0 = 0: the difference is 255 and it borrows; VF is 0
C31_Witness ==
    /\ Ran(<<8, 15, 0, 7>>)
    /\ last.before[15] = 1 /\ last.before[0] = 0
    /\ V(15) = 0

----------------------------------------------------------------------------
(* Properties of the beep, under Spec.                                     *)

\* the step dispatches an Fx18
SetsSound == Fetching /\ nibble_0 = 15 /\ nibble_2 = 1 /\ nibble_3 = 8

\* C32 (Fx18): Fx18 sets the sound timer to Vx and does not signal the beeper.
C32_SetStep ==
    SetsSound =>
        /\ state'.sound_timer = state.data_registers[nibble_1]
        /\ beeper' = beeper

\* C32 (a tick): a tick that finds the sound timer at m > 0 signals play and
\* leaves m - 1; a tick that finds it at 0 signals pause and leaves 0; a timer
\* check without a tick signals nothing.
C32_TickStep ==
    phase = "timer" =>
        IF timing'.tick
        THEN IF state.sound_timer > 0
             THEN beeper' = "play" /\ state'.sound_timer = state.sound_timer - 1
             ELSE beeper' = "pause" /\ state'.sound_timer = 0
        ELSE beeper' = beeper /\ state'.sound_timer = state.sound_timer

\* C32 (anything else): no other step changes the sound timer or signals the
\* beeper.
C32_OtherStep ==
    (phase # "timer" /\ ~SetsSound) =>
        beeper' = beeper /\ state'.sound_timer = state.sound_timer

\* C32: a beep lasts as many ticks as the sound timer holds: after Fx18 has set
\* the sound timer to n > 0, the sound timer counts the ticks that are still to
\* signal play, so with no later Fx18 exactly the next n ticks signal play and
\* every tick after them signals pause; Fx18 itself does not signal the beeper.
C32_BeepLastsNTicks == [][C32_SetStep /\ C32_TickStep /\ C32_OtherStep]_vars

\* Fx18 set the sound timer to 3 and four ticks came after it: the first three
\* signalled play, the fourth found the sound timer at 0 and signalled pause
C32_Witness ==
    /\ phase = "poll" /\ ticksLeft = MaxTicks - 4
    /\ last.word \in {<<15, 1, 0, 7>>, <<1, 2, 0, 6>>}
    /\ timing.tick /\ timing.sound = 0
    /\ state.sound_timer = 0
    /\ beeper = "pause"
====
